---- MODULE Spec2Model ----
(***************************************************************************)
(* RasPyCam: command protocol and concurrency-orchestration layer.         *)
(*                                                                         *)
(* The model follows src/app/core/process.py (the split modules            *)
(* core/command.py, core/initialisation.py and core/control.py hold the    *)
(* same code), src/app/core/model.py and src/app/utilities/record.py.      *)
(* The Motion Worker's module is not part of the sources; its loop is      *)
(* modelled from the specification.                                        *)
(*                                                                         *)
(* Specifications:                                                         *)
(*   Spec       the daemon: Pipe Listener, main loop, workers, signal      *)
(*   SpecExec   execute_all_commands called directly with command tuples   *)
(*   SpecFlood  the daemon under a producer that floods the pipe           *)
(*   SpecStatus set_status applied to any Camera Record                    *)
(*   SpecParse  the Pipe Listener polling a pipe that holds any one message *)
(*   SpecRecord the daemon after one recording command, with fairness      *)
(*                                                                         *)
(* Python strings are sequences of one-character strings, so that slicing, *)
(* splitting, stripping and int() are computed as the code computes them.  *)
(***************************************************************************)
EXTENDS Integers, Sequences, FiniteSets, TLC

(***************************************************************************)
(* Bounds of the model.                                                    *)
(***************************************************************************)
\* number of messages the external producer writes to the pipe in one run
MaxWrites == 2
\* number of direct calls of execute_all_commands in one run
MaxCalls == 2
\* the monotonic clock is observed up to this value
MaxTime == 2
\* number of messages the flooding producer writes
MaxFlood == 11
\* the longest free text in the pipe
MaxText == 4
\* the most codes in a generated group message
MaxCodes == 2
\* the longest bracketed parameter text in a generated group message
MaxParamText == 4

(***************************************************************************)
(* Program constants.                                                      *)
(***************************************************************************)
FIFO_MAX == 10
\* upper limit of the bi command
MAX_BITRATE == 25000000
\* upper limit of the tv command, 24*60*60*10
MAX_TL_INTERVAL == 864000
\* slots of the attached cameras (Picamera2.global_camera_info())
Slots == {0, 1}
\* picam2.sensor_resolution of every attached camera
SensorRes == <<4608, 2592>>

(***************************************************************************)
(* Python string primitives.                                               *)
(***************************************************************************)
Whitespace == {" ", "\n", "\t"}

Digits == {"0", "1", "2", "3", "4", "5", "6", "7", "8", "9"}

DigitVal(c) ==
  CASE c = "0" -> 0 [] c = "1" -> 1 [] c = "2" -> 2 [] c = "3" -> 3
    [] c = "4" -> 4 [] c = "5" -> 5 [] c = "6" -> 6 [] c = "7" -> 7
    [] c = "8" -> 8 [] c = "9" -> 9

\* s[a:] with a 0-based start, as Python slices
SliceFrom(s, a) ==
  IF a >= Len(s) THEN <<>> ELSE SubSeq(s, a + 1, Len(s))

\* s[:b]
SliceTo(s, b) ==
  IF b >= Len(s) THEN s ELSE SubSeq(s, 1, b)

RECURSIVE RStrip(_)
RStrip(s) ==
  IF s = <<>> THEN s
  ELSE IF s[Len(s)] \in Whitespace THEN RStrip(SubSeq(s, 1, Len(s) - 1))
  ELSE s

RECURSIVE LStrip(_)
LStrip(s) ==
  IF s = <<>> THEN s
  ELSE IF s[1] \in Whitespace THEN LStrip(Tail(s))
  ELSE s

Strip(s) == LStrip(RStrip(s))

StartsWith(s, p) ==
  /\ Len(s) >= Len(p)
  /\ SubSeq(s, 1, Len(p)) = p

\* position of the first ch in s, 0 when absent
RECURSIVE IndexFrom(_, _, _)
IndexFrom(s, ch, i) ==
  IF i > Len(s) THEN 0
  ELSE IF s[i] = ch THEN i
  ELSE IndexFrom(s, ch, i + 1)

\* str.split(ch): always at least one field
RECURSIVE Split(_, _)
Split(s, ch) ==
  LET k == IndexFrom(s, ch, 1)
  IN IF k = 0 THEN <<s>>
     ELSE <<SubSeq(s, 1, k - 1)>> \o Split(SubSeq(s, k + 1, Len(s)), ch)

\* str.isnumeric() on ASCII text
IsNumeric(s) ==
  /\ s # <<>>
  /\ \A i \in 1..Len(s) : s[i] \in Digits

RECURSIVE DigitsVal(_)
DigitsVal(s) ==
  IF s = <<>> THEN 0
  ELSE 10 * DigitsVal(SubSeq(s, 1, Len(s) - 1)) + DigitVal(s[Len(s)])

\* the text int() converts: surrounding whitespace removed
IntBody(s) ==
  LET t == Strip(s)
  IN IF t # <<>> /\ t[1] \in {"+", "-"} THEN Tail(t) ELSE t

\* int(s) does not raise ValueError
IsInt(s) == IsNumeric(IntBody(s))

\* int(s), defined when IsInt(s)
ToInt(s) ==
  LET t == Strip(s)
  IN IF t[1] = "-" THEN 0 - DigitsVal(IntBody(s)) ELSE DigitsVal(IntBody(s))

\* float(s) does not raise ValueError: decimal notation only
IsFloat(s) ==
  LET b == IntBody(s)
      k == IndexFrom(b, ".", 1)
  IN IF k = 0 THEN IsNumeric(b)
     ELSE /\ Len(b) > 1
          /\ \A i \in 1..Len(b) : i # k => b[i] \in Digits

\* a split at every comma, escaped or not
RECURSIVE SplitUnescaped_every(_, _, _)
SplitUnescaped_every(s, start, i) ==
  IF i > Len(s) THEN <<SubSeq(s, start, Len(s))>>
  ELSE IF s[i] = ","
       THEN <<SubSeq(s, start, i - 1)>> \o SplitUnescaped_every(s, i + 1, i + 1)
  ELSE SplitUnescaped_every(s, start, i + 1)

\* re.split("(?<!/),", s): split at every comma not preceded by "/"
RECURSIVE SplitUnescaped(_, _, _)
SplitUnescaped(s, start, i) ==
  IF i > Len(s) THEN <<SubSeq(s, start, Len(s))>>
  ELSE IF s[i] = "," /\ (i = 1 \/ s[i - 1] # "/")
       THEN <<SubSeq(s, start, i - 1)>> \o SplitUnescaped(s, i + 1, i + 1)
  ELSE SplitUnescaped(s, start, i + 1)

\* param.replace("/,", ",")
RECURSIVE Unescape(_)
Unescape(s) ==
  IF Len(s) < 2 THEN s
  ELSE IF s[1] = "/" /\ s[2] = "," THEN <<",">> \o Unescape(SubSeq(s, 3, Len(s)))
  ELSE <<s[1]>> \o Unescape(Tail(s))

(***************************************************************************)
(* Integer to text, str(n).                                                *)
(***************************************************************************)
DigitChar(d) ==
  CASE d = 0 -> "0" [] d = 1 -> "1" [] d = 2 -> "2" [] d = 3 -> "3"
    [] d = 4 -> "4" [] d = 5 -> "5" [] d = 6 -> "6" [] d = 7 -> "7"
    [] d = 8 -> "8" [] d = 9 -> "9"

RECURSIVE NatToStr(_)
NatToStr(n) ==
  IF n < 10 THEN <<DigitChar(n)>>
  ELSE NatToStr(n \div 10) \o <<DigitChar(n % 10)>>

ToStr(n) == IF n < 0 THEN <<"-">> \o NatToStr(0 - n) ELSE NatToStr(n)

\* int(x) of a Python float quotient: truncation toward zero of a / b, b > 0
TruncDiv(a, b) == IF a >= 0 THEN a \div b ELSE 0 - ((0 - a) \div b)

Min(a, b) == IF a < b THEN a ELSE b

Max(a, b) == IF a > b THEN a ELSE b

(***************************************************************************)
(* The command table, CameraCoreModel.VALID_COMMANDS.  Each code maps to   *)
(* its setting: none, one setting name, or a list of setting names.        *)
(***************************************************************************)
\* the command codes, as the texts the parser compares; sy is handled by
\* execute_command but absent from VALID_COMMANDS
Code ==
  ("an" :> <<"a", "n">>)
  @@ ("sh" :> <<"s", "h">>)
  @@ ("co" :> <<"c", "o">>)
  @@ ("br" :> <<"b", "r">>)
  @@ ("sa" :> <<"s", "a">>)
  @@ ("ss" :> <<"s", "s">>)
  @@ ("ec" :> <<"e", "c">>)
  @@ ("is" :> <<"i", "s">>)
  @@ ("qu" :> <<"q", "u">>)
  @@ ("ca" :> <<"c", "a">>)
  @@ ("px" :> <<"p", "x">>)
  @@ ("pv" :> <<"p", "v">>)
  @@ ("im" :> <<"i", "m">>)
  @@ ("md" :> <<"m", "d">>)
  @@ ("mx" :> <<"m", "x">>)
  @@ ("mt" :> <<"m", "t">>)
  @@ ("ms" :> <<"m", "s">>)
  @@ ("mb" :> <<"m", "b">>)
  @@ ("me" :> <<"m", "e">>)
  @@ ("ru" :> <<"r", "u">>)
  @@ ("bi" :> <<"b", "i">>)
  @@ ("sc" :> <<"s", "c">>)
  @@ ("fl" :> <<"f", "l">>)
  @@ ("rs" :> <<"r", "s">>)
  @@ ("cn" :> <<"c", "n">>)
  @@ ("im+im" :> <<"i", "m", "+", "i", "m">>)
  @@ ("dp" :> <<"d", "p">>)
  @@ ("cr" :> <<"c", "r">>)
  @@ ("cs" :> <<"c", "s">>)
  @@ ("ix" :> <<"i", "x">>)
  @@ ("ix+ix" :> <<"i", "x", "+", "i", "x">>)
  @@ ("1s" :> <<"1", "s">>)
  @@ ("wb" :> <<"w", "b">>)
  @@ ("ag" :> <<"a", "g">>)
  @@ ("tl" :> <<"t", "l">>)
  @@ ("tv" :> <<"t", "v">>)
  @@ ("sy" :> <<"s", "y">>)

NoSetting == [kind |-> "none", names |-> <<>>]

OneSetting(n) == [kind |-> "str", names |-> <<n>>]

ListSetting(ns) == [kind |-> "list", names |-> ns]

VALID_COMMANDS ==
  (Code["an"] :> OneSetting("annotation")) @@ (Code["sh"] :> OneSetting("sharpness")) @@
  (Code["co"] :> OneSetting("contrast")) @@ (Code["br"] :> OneSetting("brightness")) @@
  (Code["sa"] :> OneSetting("saturation")) @@ (Code["ss"] :> OneSetting("shutter_speed")) @@
  (Code["ec"] :> OneSetting("exposure_compensation")) @@ (Code["is"] :> OneSetting("iso")) @@
  (Code["qu"] :> OneSetting("image_quality")) @@ (Code["ca"] :> NoSetting) @@
  (Code["px"] :> ListSetting(<<"video_width", "video_height", "video_fps",
                         "MP4Box_fps", "image_width", "image_height">>)) @@
  (Code["pv"] :> ListSetting(<<"quality", "width", "divider", "height">>)) @@
  (Code["im"] :> NoSetting) @@ (Code["md"] :> NoSetting) @@
  (Code["mx"] :> OneSetting("motion_external")) @@
  (Code["mt"] :> OneSetting("motion_threshold")) @@
  (Code["ms"] :> OneSetting("motion_initframes")) @@
  (Code["mb"] :> OneSetting("motion_startframes")) @@
  (Code["me"] :> OneSetting("motion_stopframes")) @@ (Code["ru"] :> NoSetting) @@
  (Code["bi"] :> OneSetting("video_bitrate")) @@ (Code["sc"] :> NoSetting) @@
  (Code["fl"] :> ListSetting(<<"hflip", "vflip">>)) @@ (Code["rs"] :> NoSetting) @@
  (Code["cn"] :> NoSetting) @@ (Code["im+im"] :> NoSetting) @@
  (Code["dp"] :> OneSetting("show_preview")) @@
  (Code["cr"] :> OneSetting("camera_resolution")) @@ (Code["cs"] :> NoSetting) @@
  (Code["ix"] :> NoSetting) @@ (Code["ix+ix"] :> NoSetting) @@
  (Code["1s"] :> OneSetting("solo_stream_mode")) @@
  (Code["wb"] :> OneSetting("white_balance")) @@
  (Code["ag"] :> ListSetting(<<"autowbgain_r", "autowbgain_b">>)) @@
  (Code["tl"] :> OneSetting("timelapse_start_stop")) @@
  (Code["tv"] :> OneSetting("tl_interval"))

ValidCodes == DOMAIN VALID_COMMANDS

(***************************************************************************)
(* Commands.  A Python command tuple (code, param) is the record           *)
(* [grp |-> FALSE, codes |-> <<code>>, params |-> <<param>>]; a group      *)
(* tuple ([codes], [params]) has grp = TRUE.  read_pipe's False is NoCmd.  *)
(***************************************************************************)
NoCmd == [grp |-> FALSE, codes |-> <<>>, params |-> <<>>]

SimpleCmd(code, param) == [grp |-> FALSE, codes |-> <<code>>, params |-> <<param>>]

GroupCmd(codes, params) == [grp |-> TRUE, codes |-> codes, params |-> params]

\* the padding loop stopping one entry early
RECURSIVE PadParams_short(_, _)
PadParams_short(params, n) ==
  IF Len(params) < n - 1 THEN PadParams_short(Append(params, <<>>), n) ELSE params

\* the padding inserted in front of the supplied entries
RECURSIVE PadParams_front(_, _)
PadParams_front(params, n) ==
  IF Len(params) < n THEN PadParams_front(<<<<>>>> \o params, n) ELSE params

\* while len(cmd_params) < len(cmd_codes): cmd_params.append("")
RECURSIVE PadParams(_, _)
PadParams(params, n) ==
  IF Len(params) < n THEN PadParams(Append(params, <<>>), n) ELSE params

\* the validation loop skipping unknown codes instead of rejecting the group
make_cmd_lists_partial(contents_str) ==
  LET close == IndexFrom(contents_str, "]", 1)
      raw_codes == Split(SliceFrom(SubSeq(contents_str, 1, close - 1), 1), ",")
      cmd_codes == SelectSeq([i \in 1..Len(raw_codes) |-> Strip(raw_codes[i])],
                             LAMBDA c : c = <<>> \/ c \in ValidCodes)
  IN IF close = 0 THEN NoCmd
     ELSE GroupCmd(cmd_codes, PadParams(<<>>, Len(cmd_codes)))

make_cmd_lists(contents_str) ==
  LET close == IndexFrom(contents_str, "]", 1)
      raw_codes == Split(SliceFrom(SubSeq(contents_str, 1, close - 1), 1), ",")
      raw_params == SubSeq(contents_str, close + 1, Len(contents_str))
      cmd_codes == [i \in 1..Len(raw_codes) |-> Strip(raw_codes[i])]
      stripped == Strip(raw_params)
      parsed_params == SplitUnescaped(SubSeq(stripped, 2, Len(stripped) - 1), 1, 1)
      cmd_params ==
        IF stripped # <<>>
        THEN IF stripped[1] = "[" /\ stripped[Len(stripped)] = "]"
             THEN [i \in 1..Len(parsed_params) |-> Unescape(parsed_params[i])]
             ELSE [i \in 1..Len(cmd_codes) |-> stripped]
        ELSE <<>>
  IN IF close = 0 THEN NoCmd
     ELSE IF \E i \in 1..Len(cmd_codes) :
               cmd_codes[i] # <<>> /\ cmd_codes[i] \notin ValidCodes
          THEN NoCmd
     ELSE GroupCmd(cmd_codes, PadParams(cmd_params, Len(cmd_codes)))

\* read_pipe without the membership test of the code
read_pipe_unvalidated(contents) ==
  LET contents_str == RStrip(contents)
  IN IF Len(contents_str) > 0
     THEN IF contents_str[1] = "["
          THEN make_cmd_lists(contents_str)
          ELSE SimpleCmd(SliceTo(contents_str, 2), SliceFrom(contents_str, 3))
     ELSE NoCmd

\* read_pipe after a successful os.read: contents is the decoded text
read_pipe(contents) ==
  LET contents_str == RStrip(contents)
      cmd_code == SliceTo(contents_str, 2)
      cmd_param == SliceFrom(contents_str, 3)
  IN IF Len(contents_str) > 0
     THEN IF cmd_code[1] = "["
          THEN make_cmd_lists(contents_str)
          ELSE IF cmd_code \in ValidCodes
               THEN SimpleCmd(cmd_code, cmd_param)
               ELSE NoCmd
     ELSE NoCmd

(***************************************************************************)
(* Text constants used by the handlers.                                    *)
(***************************************************************************)
T_true == <<"t", "r", "u", "e">>

T_false == <<"f", "a", "l", "s", "e">>

T_default_annotation == <<"R", "P", "i">>

\* keys of the white-balance enum_dict of set_image_adjustment
AwbModes ==
  { <<"a", "u", "t", "o">>, <<"c", "l", "o", "u", "d", "y">>,
    <<"s", "h", "a", "d", "e">>, <<"f", "l", "a", "s", "h">> }

\* statuses that start with the error marker, status.startswith("Error")
ErrorStatuses == {"Error", "Error: camera"}

(***************************************************************************)
(* Camera Record: one CameraCoreModel instance.  record_until = 0 is None; *)
(* current_status = "" is an unset status; started is picam2.started;      *)
(* encoder_running is video_encoder.running; camera_config is the          *)
(* configuration last applied to the controller by picam2.configure();     *)
(* write_to_config is the settings dict and user_config the contents of    *)
(* the settings file, config_writes the number of times that file was      *)
(* written; status_file is the contents of the status file; log counts the *)
(* lines of the per-camera log.                                            *)
(***************************************************************************)
DefaultConfig ==
  [ annotation |-> T_default_annotation,
    sharpness |-> <<"1">>, contrast |-> <<"1">>, brightness |-> <<"0">>,
    saturation |-> <<"1">>, analogue_gain |-> 700, exposure_compensation |-> 0,
    white_balance_mode |-> <<"a", "u", "t", "o">>,
    colorgains_red |-> <<"0">>, colorgains_blue |-> <<"0">>,
    hflip |-> 0, vflip |-> 0, exposure_time |-> 0,
    preview_size |-> <<512, 288>>, divider |-> 1, preview_quality |-> 50,
    video_width |-> 1920, video_height |-> 1080, video_fps |-> 30,
    video_bitrate |-> 17000000, mp4_fps |-> 30,
    image_width |-> 1920, image_height |-> 1080, image_quality |-> 85,
    motion_mode |-> "internal", motion_threshold |-> 250,
    motion_initframes |-> 0, motion_startframes |-> 3,
    motion_stopframes |-> 50, picam_buffer_count |-> 2,
    solo_stream_mode |-> FALSE, tl_interval |-> 30 ]

\* toggle_solo_stream_mode
toggle_solo_stream_mode(cam, switch_on) ==
  IF switch_on
  THEN [cam EXCEPT !.solo_stream_mode = TRUE,
                   !.config.picam_buffer_count = 1,
                   !.preview_stream = "main",
                   !.record_stream = "main",
                   !.md_stream = "main"]
  ELSE [cam EXCEPT !.solo_stream_mode = FALSE,
                   !.preview_stream = "lores",
                   !.record_stream = "lores",
                   !.md_stream = "raw"]

\* build_configuration_object: the stream sizes are clamped to the sensor
\* resolution and the configuration is applied; the controller accepts the
\* requested raw size, which sensor_format is then snapped to.
build_configuration_object(cam) ==
  LET main0 == <<cam.config.image_width, cam.config.image_height>>
      main1 == <<Min(main0[1], SensorRes[1]), Min(main0[2], SensorRes[2])>>
      lores0 == <<cam.config.video_width, cam.config.video_height>>
      lores1 == <<Min(lores0[1], main1[1]), Min(lores0[2], main1[2])>>
  IN [cam EXCEPT !.camera_config =
        [ main |-> main1,
          lores |-> IF cam.solo_stream_mode THEN <<0, 0>> ELSE lores1,
          buffer_count |-> cam.config.picam_buffer_count,
          raw |-> cam.sensor_format,
          solo |-> cam.solo_stream_mode,
          hflip |-> cam.config.hflip, vflip |-> cam.config.vflip ]]

\* CameraCoreModel.__init__ with the given autostart setting and an empty
\* settings file
NewCamera(autostart) ==
  LET base ==
        [ current_status |-> "halted",
          started |-> FALSE,
          encoder_running |-> FALSE,
          capturing_still |-> FALSE,
          capturing_video |-> FALSE,
          motion_detection |-> FALSE,
          timelapse_on |-> FALSE,
          timelapse_count |-> 0,
          record_until |-> 0,
          show_preview |-> TRUE,
          sensor_format |-> <<1920, 1080>>,
          solo_stream_mode |-> FALSE,
          preview_stream |-> "lores",
          record_stream |-> "lores",
          md_stream |-> "raw",
          config |-> DefaultConfig,
          camera_config |-> [ main |-> <<0, 0>>, lores |-> <<0, 0>>,
                              buffer_count |-> 0, raw |-> <<0, 0>>,
                              solo |-> FALSE, hflip |-> 0, vflip |-> 0 ],
          write_to_config |-> {},
          user_config |-> {},
          config_writes |-> 0,
          status_file |-> "",
          log |-> 0 ]
      built == build_configuration_object(toggle_solo_stream_mode(base, FALSE))
  IN IF autostart
     THEN [built EXCEPT !.current_status = "ready", !.started = TRUE]
     ELSE built

\* a faulty set_status: an explicit status is always adopted
set_status_verbatim(cam, status) ==
  IF status # ""
  THEN [cam EXCEPT !.current_status = status]
  ELSE [cam EXCEPT !.current_status =
          IF ~cam.started THEN "halted"
          ELSE IF cam.capturing_still THEN "image"
          ELSE IF cam.capturing_video
               THEN IF cam.motion_detection
                    THEN IF cam.timelapse_on THEN "tl_md_video" ELSE "md_video"
                    ELSE IF cam.timelapse_on THEN "tl_video" ELSE "video"
          ELSE IF cam.motion_detection
               THEN IF cam.timelapse_on THEN "tl_md_ready" ELSE "md_ready"
          ELSE IF cam.timelapse_on THEN "timelapse" ELSE "ready"]

\* a faulty set_status: an error status survives the call without argument
set_status_sticky(cam, status) ==
  IF cam.current_status \in ErrorStatuses \/ (status # "" /\ cam.current_status = "")
  THEN [cam EXCEPT !.current_status = IF status # "" THEN status ELSE @]
  ELSE IF status # "" /\ status \in ErrorStatuses
  THEN [cam EXCEPT !.current_status = status]
  ELSE [cam EXCEPT !.current_status =
          IF status = "halted" THEN "halted"
          ELSE IF ~cam.started THEN "halted"
          ELSE IF cam.capturing_still THEN "image"
          ELSE IF cam.capturing_video
               THEN IF cam.motion_detection
                    THEN IF cam.timelapse_on THEN "tl_md_video" ELSE "md_video"
                    ELSE IF cam.timelapse_on THEN "tl_video" ELSE "video"
          ELSE IF cam.motion_detection
               THEN IF cam.timelapse_on THEN "tl_md_ready" ELSE "md_ready"
          ELSE IF cam.timelapse_on THEN "timelapse" ELSE "ready"]

(***************************************************************************)
(* CameraCoreModel.set_status.  status = "" is the call without argument.  *)
(***************************************************************************)
set_status(cam, status) ==
  IF status # "" /\ cam.current_status = ""
  THEN [cam EXCEPT !.current_status = status]
  ELSE IF status # "" /\ status \in ErrorStatuses
  THEN [cam EXCEPT !.current_status = status]
  ELSE [cam EXCEPT !.current_status =
          IF status = "halted" THEN "halted"
          ELSE IF ~cam.started THEN "halted"
          ELSE IF cam.capturing_still THEN "image"
          ELSE IF cam.capturing_video
               THEN IF cam.motion_detection
                    THEN IF cam.timelapse_on THEN "tl_md_video" ELSE "md_video"
                    ELSE IF cam.timelapse_on THEN "tl_video" ELSE "video"
          ELSE IF cam.motion_detection
               THEN IF cam.timelapse_on THEN "tl_md_ready" ELSE "md_ready"
          ELSE IF cam.timelapse_on THEN "timelapse" ELSE "ready"]

\* print_to_logfile: one more line in the camera's log (log_size is not 0)
print_to_logfile(cam) == [cam EXCEPT !.log = @ + 1]

\* a faulty stop_all: the flags are left as they are
stop_all_keeps_flags(cam) ==
  [cam EXCEPT !.encoder_running = FALSE,
              !.started = FALSE]

\* CameraCoreModel.stop_all
stop_all(cam) ==
  [cam EXCEPT !.encoder_running = FALSE,
              !.started = FALSE,
              !.capturing_video = FALSE,
              !.capturing_still = FALSE,
              !.motion_detection = FALSE,
              !.timelapse_on = FALSE]

\* a faulty start_recording: the capturing_video test is missing
start_recording_again(cam) ==
  [cam |-> set_status([print_to_logfile(cam) EXCEPT
                         !.encoder_running = TRUE,
                         !.capturing_video = TRUE], "video"),
   ret |-> TRUE]

\* start_recording, with its return value
start_recording(cam) ==
  IF cam.capturing_video
  THEN [cam |-> print_to_logfile(cam), ret |-> FALSE]
  ELSE [cam |-> set_status([print_to_logfile(cam) EXCEPT
                              !.encoder_running = TRUE,
                              !.capturing_video = TRUE], "video"),
        ret |-> TRUE]

\* stop_recording, with its return value
stop_recording(cam) ==
  IF ~cam.capturing_video
  THEN [cam |-> print_to_logfile(cam), ret |-> FALSE]
  ELSE [cam |-> set_status([print_to_logfile(cam) EXCEPT
                              !.encoder_running = FALSE,
                              !.capturing_video = FALSE], "ready"),
        ret |-> TRUE]

\* toggle_cam_record
toggle_cam_record(cam, status) ==
  IF status THEN start_recording(cam) ELSE stop_recording(cam)

(***************************************************************************)
(* Settings dict (write_to_config) and settings file (user_config): a set  *)
(* of <<key, value>> pairs with at most one pair per key.                  *)
(***************************************************************************)
DictPut(d, k, v) == {p \in d : p[1] # k} \cup {<<k, v>>}

DictHas(d, k) == \E p \in d : p[1] = k

DictGet(d, k) == (CHOOSE p \in d : p[1] = k)[2]

(***************************************************************************)
(* CameraCoreModel.set_camera_configuration.  The result is the camera     *)
(* after the call and ret: "True", "False", or the exception that leaves   *)
(* the function ("IndexError").                                            *)
(***************************************************************************)
PxField(cfg, k, v) ==
  CASE k = 1 -> [cfg EXCEPT !.video_width = v]
    [] k = 2 -> [cfg EXCEPT !.video_height = v]
    [] k = 3 -> [cfg EXCEPT !.video_fps = v]
    [] k = 4 -> [cfg EXCEPT !.mp4_fps = v]
    [] k = 5 -> [cfg EXCEPT !.image_width = v]
    [] k = 6 -> [cfg EXCEPT !.image_height = v]

\* the six assignments of the px branch, in order, up to the first that raises
RECURSIVE PxAssign(_, _, _)
PxAssign(cam, settings, k) ==
  IF k > 6 THEN [cam |-> cam, ret |-> "True"]
  ELSE IF k > Len(settings) THEN [cam |-> cam, ret |-> "IndexError"]
  ELSE IF ~IsInt(settings[k]) THEN [cam |-> cam, ret |-> "False"]
  ELSE PxAssign([cam EXCEPT !.config = PxField(@, k, ToInt(settings[k]))],
                settings, k + 1)

\* the cs branch: w1/h1 (and w2/h2) are "=" for the sensor format or integers
CsDim(cam, p, axis) == IF p = <<"=">> THEN cam.sensor_format[axis] ELSE ToInt(p)

CsDimOk(p) == p = <<"=">> \/ IsInt(p)

CsConfigure(cam, cmd_param) ==
  LET params == Split(cmd_param, " ")
  IN IF Len(params) < 3 THEN [cam |-> cam, ret |-> "False"]
     ELSE IF ~(CsDimOk(params[2]) /\ CsDimOk(params[3]))
     THEN [cam |-> cam, ret |-> "False"]
     ELSE LET w1 == CsDim(cam, params[2], 1)
              h1 == CsDim(cam, params[3], 2)
          IN IF params[1] = <<"i">>
             THEN [cam |-> [cam EXCEPT !.config.image_width = w1,
                                       !.config.image_height = h1],
                   ret |-> "True"]
             ELSE IF params[1] = <<"v">>
             THEN [cam |-> [cam EXCEPT !.config.video_width = w1,
                                       !.config.video_height = h1],
                   ret |-> "True"]
             ELSE IF params[1] \in {<<"i", "+", "v">>, <<"v", "+", "i">>}
             THEN IF Len(params) < 5 THEN [cam |-> cam, ret |-> "False"]
                  ELSE IF ~(CsDimOk(params[4]) /\ CsDimOk(params[5]))
                  THEN [cam |-> cam, ret |-> "False"]
                  ELSE [cam |-> [cam EXCEPT
                                   !.config.image_width = w1,
                                   !.config.image_height = h1,
                                   !.config.video_width = CsDim(cam, params[4], 1),
                                   !.config.video_height = CsDim(cam, params[5], 2)],
                        ret |-> "True"]
             ELSE [cam |-> cam, ret |-> "False"]

CrConfigure(cam, cmd_param) ==
  LET params == Split(cmd_param, " ")
  IN IF Len(params) < 2 THEN [cam |-> cam, ret |-> "False"]
     ELSE IF ~(IsInt(params[1]) /\ IsInt(params[2]))
     THEN [cam |-> cam, ret |-> "False"]
     ELSE [cam |-> [cam EXCEPT !.sensor_format =
                                 <<ToInt(params[1]), ToInt(params[2])>>],
           ret |-> "True"]

FlConfigure(cam, cmd_param) ==
  LET hf == IF cmd_param \in {<<"1">>, <<"3">>} THEN 1 ELSE 0
      vf == IF cmd_param \in {<<"2">>, <<"3">>} THEN 1 ELSE 0
  IN [cam |-> [cam EXCEPT !.config.hflip = hf, !.config.vflip = vf],
      ret |-> "True"]

\* the 1s branch: two consecutive if statements, the second with an else
SoloConfigure(cam, cmd_param) ==
  LET c1 == IF cmd_param = <<"1">>
            THEN [toggle_solo_stream_mode(cam, TRUE) EXCEPT !.show_preview = FALSE]
            ELSE cam
      c2 == IF cmd_param = <<"2">>
            THEN [toggle_solo_stream_mode(
                    [c1 EXCEPT !.sensor_format = SensorRes], TRUE)
                  EXCEPT !.show_preview = FALSE]
            ELSE toggle_solo_stream_mode(c1, FALSE)
  IN [cam |-> c2, ret |-> "True"]

\* reset_user_configs with no default configuration file: the settings file
\* is emptied; write_to_config is left as it is
reset_user_configs(cam) ==
  [cam EXCEPT !.user_config = {}, !.config_writes = @ + 1]

\* the ix branch; dims = <<w, h, buffer_count>>, revert = 0 for the
\* maximum-resolution configuration and 1 for the revert
IxConfigure(cam, dims, revert) ==
  LET c1 == [cam EXCEPT !.config.image_width = dims[1],
                        !.config.image_height = dims[2],
                        !.sensor_format = <<dims[1], dims[2]>>,
                        !.config.picam_buffer_count = dims[3]]
  IN build_configuration_object(toggle_solo_stream_mode(c1, revert = 0))

set_camera_configuration(cam, cmd_code, cmd_param) ==
  LET r == CASE cmd_code = Code["px"] -> PxAssign(cam, Split(cmd_param, " "), 1)
             [] cmd_code = Code["fl"] -> FlConfigure(cam, cmd_param)
             [] cmd_code = Code["cr"] -> CrConfigure(cam, cmd_param)
             [] cmd_code = Code["cs"] -> CsConfigure(cam, cmd_param)
             [] cmd_code = Code["1s"] -> SoloConfigure(cam, cmd_param)
             [] cmd_code = Code["rs"] -> [cam |-> reset_user_configs(cam), ret |-> "True"]
             [] OTHER -> [cam |-> cam, ret |-> "True"]
  IN IF r.ret = "True"
     THEN [cam |-> build_configuration_object(r.cam), ret |-> "True"]
     ELSE r

(***************************************************************************)
(* CameraCoreModel.set_motion_params.  motion_threshold is kept in the     *)
(* command's unit (vector count); the scaling to MSE is not modelled.      *)
(***************************************************************************)
set_motion_params(cam, cmd_code, cmd_param) ==
  IF ~IsInt(cmd_param) THEN [cam |-> cam, ret |-> FALSE]
  ELSE LET value == Max(0, ToInt(cmd_param))
       IN [cam |->
             CASE cmd_code = Code["mt"] -> [cam EXCEPT !.config.motion_threshold = value]
               [] cmd_code = Code["ms"] -> [cam EXCEPT !.config.motion_initframes = value]
               [] cmd_code = Code["mb"] -> [cam EXCEPT !.config.motion_startframes = value]
               [] cmd_code = Code["me"] -> [cam EXCEPT !.config.motion_stopframes = value]
               [] OTHER -> cam,
           ret |-> TRUE]

(***************************************************************************)
(* The image adjustments (sh co br sa wb ag ss ec is) as execute_command   *)
(* and set_image_adjustment handle them.  The numeric scaling of the       *)
(* values is not modelled: a float setting keeps the text it was parsed    *)
(* from, exposure_compensation is kept in tenths (clamped to -80..80) and  *)
(* analogue_gain in hundredths.                                            *)
(***************************************************************************)
LowerCase(s) ==
  [i \in 1..Len(s) |->
     CASE s[i] = "A" -> "a" [] s[i] = "C" -> "c" [] s[i] = "O" -> "o"
       [] s[i] = "T" -> "t" [] s[i] = "U" -> "u" [] OTHER -> s[i]]

image_adjustment(cam, cmd_code, cmd_param) ==
  CASE cmd_code = Code["sh"] ->
         IF IsFloat(cmd_param)
         THEN [cam |-> [cam EXCEPT !.config.sharpness = Strip(cmd_param)], ret |-> TRUE]
         ELSE [cam |-> cam, ret |-> FALSE]
    [] cmd_code = Code["co"] ->
         IF IsFloat(cmd_param)
         THEN [cam |-> [cam EXCEPT !.config.contrast = Strip(cmd_param)], ret |-> TRUE]
         ELSE [cam |-> cam, ret |-> FALSE]
    [] cmd_code = Code["br"] ->
         IF IsFloat(cmd_param)
         THEN [cam |-> [cam EXCEPT !.config.brightness = Strip(cmd_param)], ret |-> TRUE]
         ELSE [cam |-> cam, ret |-> FALSE]
    [] cmd_code = Code["sa"] ->
         IF IsFloat(cmd_param)
         THEN [cam |-> [cam EXCEPT !.config.saturation = Strip(cmd_param)], ret |-> TRUE]
         ELSE [cam |-> cam, ret |-> FALSE]
    [] cmd_code = Code["wb"] ->
         IF LowerCase(cmd_param) \in AwbModes
         THEN [cam |-> [cam EXCEPT !.config.white_balance_mode = LowerCase(cmd_param)],
               ret |-> TRUE]
         ELSE [cam |-> cam, ret |-> FALSE]
    [] cmd_code = Code["ag"] ->
         LET parts == Split(Strip(cmd_param), " ")
         IN IF Len(parts) = 2 /\ IsFloat(parts[1]) /\ IsFloat(parts[2])
            THEN [cam |-> [cam EXCEPT !.config.colorgains_red = Strip(parts[1]),
                                      !.config.colorgains_blue = Strip(parts[2])],
                  ret |-> TRUE]
            ELSE [cam |-> cam, ret |-> FALSE]
    [] cmd_code = Code["ss"] ->
         IF IsInt(cmd_param)
         THEN [cam |-> [cam EXCEPT !.config.exposure_time = ToInt(cmd_param)],
               ret |-> TRUE]
         ELSE [cam |-> cam, ret |-> FALSE]
    [] cmd_code = Code["ec"] ->
         IF IsInt(cmd_param)
         THEN [cam |-> [cam EXCEPT !.config.exposure_compensation =
                                     Max(0 - 80, Min(80, ToInt(cmd_param) * 8))],
               ret |-> TRUE]
         ELSE [cam |-> cam, ret |-> FALSE]
    [] cmd_code = Code["is"] ->
         IF IsInt(cmd_param)
         THEN [cam |-> [cam EXCEPT !.config.analogue_gain = ToInt(cmd_param)],
               ret |-> TRUE]
         ELSE [cam |-> cam, ret |-> FALSE]

ImageAdjustCodes ==
  {Code["sh"], Code["co"], Code["br"], Code["sa"], Code["wb"], Code["ag"],
   Code["ss"], Code["ec"], Code["is"]}

(***************************************************************************)
(* write_to_user_config: update the settings dict for the command's        *)
(* setting name(s) and rewrite the settings file from the dict.            *)
(***************************************************************************)
BoolText(b) == IF b THEN T_true ELSE T_false

\* for index, value in enumerate(setting): if index < len(params): ...
RECURSIVE PutList(_, _, _, _)
PutList(d, names, params, k) ==
  IF k > Len(names) THEN d
  ELSE PutList(IF k <= Len(params) THEN DictPut(d, names[k], params[k]) ELSE d,
               names, params, k + 1)

write_to_user_config(cam, cmd_code, cmd_param) ==
  LET setting == VALID_COMMANDS[cmd_code]
      params == Split(cmd_param, " ")
      d == cam.write_to_config
      d1 == CASE cmd_code = Code["dp"] ->
                   DictPut(d, "show_preview", BoolText(cmd_param # <<"0">>))
              [] cmd_code = Code["fl"] ->
                   DictPut(DictPut(d, "hflip", BoolText(cam.config.hflip = 1)),
                           "vflip", BoolText(cam.config.vflip = 1))
              [] cmd_code = Code["1s"] ->
                   DictPut(d, "solo_stream_mode", BoolText(cam.solo_stream_mode))
              [] cmd_code \notin {Code["dp"], Code["fl"], Code["1s"]} /\ setting.kind = "list" ->
                   LET d0 == PutList(d, setting.names, params, 1)
                   IN IF cmd_code = Code["pv"]
                      THEN DictPut(d0, "height", ToStr(cam.config.preview_size[2]))
                      ELSE d0
              [] OTHER -> DictPut(d, setting.names[1], cmd_param)
  IN IF setting.kind = "none" THEN cam
     ELSE [cam EXCEPT !.write_to_config = d1,
                      !.user_config = d1,
                      !.config_writes = @ + 1]

(***************************************************************************)
(* read_config_file(user_config) and process_configs_from_file, as run by  *)
(* restart(True).  A value is the text after the key with its whitespace   *)
(* runs collapsed.  ret is "ok" or "ValueError" (int() of a stored text    *)
(* that is not an integer), which leaves the function as an exception.     *)
(***************************************************************************)
RECURSIVE Fields(_)
Fields(s) ==
  LET t == LStrip(s)
      k == IndexFrom(t, " ", 1)
  IN IF t = <<>> THEN <<>>
     ELSE IF k = 0 THEN <<RStrip(t)>>
     ELSE <<SubSeq(t, 1, k - 1)>> \o Fields(SubSeq(t, k + 1, Len(t)))

RECURSIVE Join(_)
Join(fs) ==
  IF fs = <<>> THEN <<>>
  ELSE IF Len(fs) = 1 THEN fs[1]
  ELSE fs[1] \o <<" ">> \o Join(Tail(fs))

FileValue(cam, k) == Join(Fields(DictGet(cam.user_config, k)))

\* keys whose stored text process_configs_from_file passes to int()
IntKeys ==
  <<"sharpness", "contrast", "brightness", "saturation",
    "exposure_compensation", "shutter_speed", "width", "quality", "divider",
    "video_width", "video_height", "video_fps", "video_bitrate", "MP4Box_fps",
    "image_width", "image_height", "image_quality", "motion_threshold",
    "motion_initframes", "motion_startframes", "motion_stopframes">>

ReloadInt(cam, k) ==
  LET v == ToInt(FileValue(cam, k))
  IN CASE k = "sharpness" -> [cam EXCEPT !.config.sharpness = FileValue(cam, k)]
       [] k = "contrast" -> [cam EXCEPT !.config.contrast = FileValue(cam, k)]
       [] k = "brightness" -> [cam EXCEPT !.config.brightness = FileValue(cam, k)]
       [] k = "saturation" -> [cam EXCEPT !.config.saturation = FileValue(cam, k)]
       [] k = "exposure_compensation" ->
            [cam EXCEPT !.config.exposure_compensation = v * 8]
       [] k = "shutter_speed" -> [cam EXCEPT !.config.exposure_time = v]
       [] k = "width" ->
            [cam EXCEPT !.config.preview_size =
               <<v, IF DictHas(cam.user_config, "height")
                       /\ IsInt(FileValue(cam, "height"))
                    THEN ToInt(FileValue(cam, "height"))
                    ELSE TruncDiv(v * 9, 16)>>]
       [] k = "quality" -> [cam EXCEPT !.config.preview_quality = v]
       [] k = "divider" -> [cam EXCEPT !.config.divider = v]
       [] k = "video_width" -> [cam EXCEPT !.config.video_width = v]
       [] k = "video_height" -> [cam EXCEPT !.config.video_height = v]
       [] k = "video_fps" -> [cam EXCEPT !.config.video_fps = v]
       [] k = "video_bitrate" -> [cam EXCEPT !.config.video_bitrate = v]
       [] k = "MP4Box_fps" -> [cam EXCEPT !.config.mp4_fps = v]
       [] k = "image_width" -> [cam EXCEPT !.config.image_width = v]
       [] k = "image_height" -> [cam EXCEPT !.config.image_height = v]
       [] k = "image_quality" -> [cam EXCEPT !.config.image_quality = v]
       [] k = "motion_threshold" -> [cam EXCEPT !.config.motion_threshold = v]
       [] k = "motion_initframes" -> [cam EXCEPT !.config.motion_initframes = v]
       [] k = "motion_startframes" -> [cam EXCEPT !.config.motion_startframes = v]
       [] k = "motion_stopframes" -> [cam EXCEPT !.config.motion_stopframes = v]

RECURSIVE ReloadInts(_, _)
ReloadInts(cam, k) ==
  IF k > Len(IntKeys) THEN [cam |-> cam, ret |-> "ok"]
  ELSE IF ~DictHas(cam.user_config, IntKeys[k]) THEN ReloadInts(cam, k + 1)
  ELSE IF ~IsInt(FileValue(cam, IntKeys[k])) THEN [cam |-> cam, ret |-> "ValueError"]
  ELSE ReloadInts(ReloadInt(cam, IntKeys[k]), k + 1)

\* keys whose stored text is taken as text, flag or pair
OtherKeys ==
  << "annotation", "white_balance", "autowbgain_r", "autowbgain_b", "hflip",
     "vflip", "show_preview", "camera_resolution", "solo_stream_mode" >>

ReloadOther(cam, k) ==
  LET v == FileValue(cam, k)
  IN CASE k = "annotation" -> [cam EXCEPT !.config.annotation = v]
       [] k = "white_balance" ->
            IF LowerCase(v) \in AwbModes
            THEN [cam EXCEPT !.config.white_balance_mode = LowerCase(v)]
            ELSE cam
       [] k = "autowbgain_r" -> [cam EXCEPT !.config.colorgains_red = v]
       [] k = "autowbgain_b" -> [cam EXCEPT !.config.colorgains_blue = v]
       [] k = "hflip" ->
            [cam EXCEPT !.config.hflip = IF LowerCase(v) = T_true THEN 1 ELSE 0]
       [] k = "vflip" ->
            [cam EXCEPT !.config.vflip = IF LowerCase(v) = T_true THEN 1 ELSE 0]
       [] k = "show_preview" ->
            IF LowerCase(v) = T_false THEN [cam EXCEPT !.show_preview = FALSE]
            ELSE cam
       [] k = "camera_resolution" ->
            [cam EXCEPT !.sensor_format =
               <<ToInt(Split(v, " ")[1]), ToInt(Split(v, " ")[2])>>]
       [] k = "solo_stream_mode" ->
            [cam EXCEPT !.config.solo_stream_mode = (LowerCase(v) = T_true)]

RECURSIVE ReloadOthers(_, _)
ReloadOthers(cam, k) ==
  IF k > Len(OtherKeys) THEN cam
  ELSE IF ~DictHas(cam.user_config, OtherKeys[k]) THEN ReloadOthers(cam, k + 1)
  ELSE ReloadOthers(ReloadOther(cam, OtherKeys[k]), k + 1)

process_configs_from_file(cam) ==
  ReloadInts(ReloadOthers(cam, 1), 1)

(***************************************************************************)
(* update_status_file: recompute the status and write it to the status     *)
(* file (an empty status is not written).                                  *)
(***************************************************************************)
update_status_file(cam) ==
  LET c == set_status(cam, "")
  IN IF c.current_status # "" THEN [c EXCEPT !.status_file = c.current_status] ELSE c

\* CameraCoreModel.teardown
teardown(cam) ==
  print_to_logfile([cam EXCEPT !.encoder_running = FALSE, !.started = FALSE])

(***************************************************************************)
(* The messages an external producer writes to the control pipe.           *)
(***************************************************************************)
Msg ==
  ("ru 0" :> <<"r", "u", " ", "0">>)
  @@ ("ru 1" :> <<"r", "u", " ", "1">>)
  @@ ("md 1" :> <<"m", "d", " ", "1">>)
  @@ ("ca 1 1" :> <<"c", "a", " ", "1", " ", "1">>)
  @@ ("ca 1 2" :> <<"c", "a", " ", "1", " ", "2">>)
  @@ ("ca 1 0" :> <<"c", "a", " ", "1", " ", "0">>)
  @@ ("ca 1" :> <<"c", "a", " ", "1">>)
  @@ ("ca 0" :> <<"c", "a", " ", "0">>)
  @@ ("[ca,ca] [1 2,1 1]" :> <<"[", "c", "a", ",", "c", "a", "]", " ", "[", "1", " ", "2",
                               ",", "1", " ", "1", "]">>)
  @@ ("cn 1" :> <<"c", "n", " ", "1">>)
  @@ ("1s 2" :> <<"1", "s", " ", "2">>)
  @@ ("cn 2" :> <<"c", "n", " ", "2">>)
  @@ ("cn x" :> <<"c", "n", " ", "x">>)
  @@ ("an x" :> <<"a", "n", " ", "x">>)
  @@ ("bi 5" :> <<"b", "i", " ", "5">>)
  @@ ("bi 0" :> <<"b", "i", " ", "0">>)
  @@ ("bi -1" :> <<"b", "i", " ", "-", "1">>)
  @@ ("bi 25000000" :> <<"b", "i", " ", "2", "5", "0", "0", "0", "0", "0", "0">>)
  @@ ("bi 25000001" :> <<"b", "i", " ", "2", "5", "0", "0", "0", "0", "0", "1">>)
  @@ ("bi x" :> <<"b", "i", " ", "x">>)
  @@ ("tv 0" :> <<"t", "v", " ", "0">>)
  @@ ("tv 1" :> <<"t", "v", " ", "1">>)
  @@ ("tv 864000" :> <<"t", "v", " ", "8", "6", "4", "0", "0", "0">>)
  @@ ("tv 864001" :> <<"t", "v", " ", "8", "6", "4", "0", "0", "1">>)
  @@ ("tv x" :> <<"t", "v", " ", "x">>)
  @@ ("px 4 x" :> <<"p", "x", " ", "4", " ", "x">>)
  @@ ("cs i 4 x" :> <<"c", "s", " ", "i", " ", "4", " ", "x">>)
  @@ ("mx 2" :> <<"m", "x", " ", "2">>)
  @@ ("sh 1.5" :> <<"s", "h", " ", "1", ".", "5">>)
  @@ ("tl" :> <<"t", "l">>)
  @@ ("px 4 3" :> <<"p", "x", " ", "4", " ", "3">>)
  @@ ("px 4 3 2 2 8 6" :> <<"p", "x", " ", "4", " ", "3", " ", "2", " ", "2", " ", "8", " ", "6">>)
  @@ ("pv 50" :> <<"p", "v", " ", "5", "0">>)
  @@ ("fl 1" :> <<"f", "l", " ", "1">>)
  @@ ("ix" :> <<"i", "x">>)
  @@ ("sy m" :> <<"s", "y", " ", "m">>)
  @@ ("zz 1" :> <<"z", "z", " ", "1">>)
  @@ ("[,md] 1" :> <<"[", ",", "m", "d", "]", " ", "1">>)
  @@ ("[,fl] 1" :> <<"[", ",", "f", "l", "]", " ", "1">>)
  @@ ("[ix+ix]" :> <<"[", "i", "x", "+", "i", "x", "]">>)
  @@ ("[md" :> <<"[", "m", "d">>)

\* what the producer of the daemon writes
Pool ==
  << Msg["ru 0"], Msg["ru 1"], Msg["cn 1"], Msg["ix"], Msg["px 4 3"],
     Msg["pv 50"], Msg["tl"], Msg["[,md] 1"], Msg["zz 1"] >>

\* what the flooding producer writes
FloodPool == << Msg["md 1"] >>

\* what the producer of a timed recording writes
RecordPool ==
  << Msg["ca 1 1"], Msg["ca 1 2"], Msg["ca 1 0"], Msg["ca 1"],
     Msg["[ca,ca] [1 2,1 1]"] >>

\* the messages whose commands execute_all_commands is called with directly
Messages ==
  << Msg["ru 0"], Msg["ru 1"], Msg["md 1"], Msg["ca 1 1"], Msg["cn 1"],
     Msg["an x"], Msg["bi 5"], Msg["tl"], Msg["px 4 3"], Msg["px 4 3 2 2 8 6"],
     Msg["pv 50"], Msg["fl 1"], Msg["ix"], Msg["sy m"], Msg["zz 1"],
     Msg["[,md] 1"], Msg["[,fl] 1"], Msg["[ix+ix]"], Msg["[md"], Msg["sh 1.5"],
     Msg["bi 0"], Msg["bi -1"], Msg["bi 25000000"], Msg["bi 25000001"],
     Msg["bi x"], Msg["tv 0"], Msg["tv 1"], Msg["tv 864000"], Msg["tv 864001"],
     Msg["tv x"], Msg["px 4 x"], Msg["cs i 4 x"],
     Msg["mx 2"], Msg["cn 2"], Msg["cn x"], Msg["1s 2"], Msg["ca 0"] >>

\* the tuples execute_all_commands is called with directly: what read_pipe
\* makes of the messages, and tuples no message parses to
DirectTuples ==
  << SimpleCmd(Code["sy"], <<"m">>),
     SimpleCmd(Code["im+im"], <<"v">>),
     SimpleCmd(Code["ix+ix"], <<>>),
     SimpleCmd(Code["im"], <<>>),
     GroupCmd(<<Code["md"], Code["md"], Code["md"]>>,
              <<<<"1">>, <<"1">>, <<"1">>>>),
     GroupCmd(<<Code["sy"], Code["sy"]>>, <<<<"m">>, <<"m">>>>) >>

ExecPool ==
  SelectSeq([i \in 1..Len(Messages) |-> read_pipe(Messages[i])],
            LAMBDA c : c # NoCmd) \o DirectTuples

(***************************************************************************)
(* State.                                                                  *)
(*   process_running, main_camera, command_queue, cmd_queue_lock,          *)
(*   show_previews, preview_dict_lock : the CameraCoreModel class fields   *)
(*   cams       : slot -> Camera Record                                    *)
(*   threads    : the worker list [preview, motion]; a worker is "new"     *)
(*                (never started), "alive", "capturing" (the preview       *)
(*                worker inside generate_preview, holding the preview      *)
(*                lock) or "dead" (its loop has returned)                  *)
(*   fifo_open  : the control pipe is open                                 *)
(*   l_pc, incoming, writes : the Pipe Listener's position, its            *)
(*                incoming_cmd, and the number of messages read so far     *)
(*   contents   : the text of the pipe message the listener's os.read       *)
(*                returns                                                  *)
(*   d_pc, ops, cur, success, orig_dims, crash : the main thread's         *)
(*                position, the steps left of the command being            *)
(*                dispatched, that command, its success flag, the saved    *)
(*                dimensions of ix, and the exception that ended the       *)
(*                thread ("" for none)                                     *)
(*   now, timelapse_timer, tl_interval_loops : time.monotonic() and the    *)
(*                main loop's timelapse counters                           *)
(*   appended, dispatched, trace, pre, reconfiguring : history of the      *)
(*                commands appended to / popped from the queue, the calls  *)
(*                made by the command in progress, the state at its start, *)
(*                and the controllers it has stopped and not yet restarted *)
(*   routed     : history of the execute_all_commands call in progress or  *)
(*                last made: its command tuple, the main-camera pointer at *)
(*                its start, and the execute_command calls and the status  *)
(*                publish it has made so far                               *)
(***************************************************************************)
VARIABLES
  process_running, main_camera, command_queue, cmd_queue_lock,
  show_previews, preview_dict_lock, cams, threads, fifo_open,
  l_pc, incoming, writes, contents,
  d_pc, ops, cur, success, orig_dims, crash,
  now, timelapse_timer, tl_interval_loops,
  appended, dispatched, trace, pre, reconfiguring, routed

vars ==
  << process_running, main_camera, command_queue, cmd_queue_lock,
     show_previews, preview_dict_lock, cams, threads, fifo_open,
     l_pc, incoming, writes, contents,
     d_pc, ops, cur, success, orig_dims, crash,
     now, timelapse_timer, tl_interval_loops,
     appended, dispatched, trace, pre, reconfiguring, routed >>

listenerVars == << l_pc, incoming, writes, contents >>

queueVars == << command_queue, cmd_queue_lock, appended, dispatched >>

timerVars == << now, timelapse_timer, tl_interval_loops >>

cmdVars == << cur, success, orig_dims, trace, pre, reconfiguring >>

SlotSeq == <<0, 1>>

IsAlive(st) == st \in {"alive", "capturing"}

WorkersAlive == IsAlive(threads.preview) \/ IsAlive(threads.motion)

FreshThreads == [preview |-> "new", motion |-> "new"]

NoCur == [index |-> 0, code |-> <<>>, param |-> <<>>, phase |-> "idle", refused |-> FALSE]

NoRouted == [cmd |-> NoCmd, main |-> 0, calls |-> <<>>]

Op(name, c) == [op |-> name, cam |-> c, code |-> <<>>, param |-> <<>>]

BeginOp(c, code, param) == [op |-> "begin", cam |-> c, code |-> code, param |-> param]

Event(name, c) == [ev |-> name, cam |-> c, alive |-> WorkersAlive]

(***************************************************************************)
(* Initial state: start_background_process up to the main loop, for every  *)
(* autostart setting of the cameras' configuration files.                  *)
(***************************************************************************)
InitCams(auto) ==
  LET built == [c \in Slots |-> NewCamera(auto[c])]
  IN [built EXCEPT ![0] = update_status_file(built[0])]

InitFrom(cs) ==
  /\ process_running = TRUE
  /\ main_camera = 0
  /\ command_queue = <<>>
  /\ cmd_queue_lock = "free"
  /\ cams = cs
  /\ show_previews = [c \in Slots |-> cams[c].show_preview]
  /\ preview_dict_lock = "free"
  /\ threads = IF cams[0].current_status # "halted"
               THEN [preview |-> "alive", motion |-> "alive"]
               ELSE FreshThreads
  /\ fifo_open = TRUE
  /\ l_pc = "read"
  /\ incoming = NoCmd
  /\ writes = 0
  /\ d_pc = "loop"
  /\ ops = <<>>
  /\ cur = NoCur
  /\ success = FALSE
  /\ orig_dims = [c \in Slots |-> <<0, 0, 0>>]
  /\ crash = ""
  /\ now = 0
  /\ tl_interval_loops = cams[0].config.tl_interval * 10
  /\ timelapse_timer = tl_interval_loops
  /\ appended = <<>>
  /\ dispatched = <<>>
  /\ trace = <<>>
  /\ pre = [cams |-> cams, main_camera |-> 0, threads |-> threads]
  /\ reconfiguring = {}
  /\ routed = NoRouted

Init ==
  /\ contents = <<>>
  /\ \E auto \in [Slots -> BOOLEAN] : InitFrom(InitCams(auto))

(***************************************************************************)
(* Signal handler.                                                         *)
(***************************************************************************)
on_sigint_sigterm ==
  /\ process_running
  /\ process_running' = FALSE
  /\ UNCHANGED << routed, main_camera, command_queue, cmd_queue_lock, show_previews,
                  preview_dict_lock, cams, threads, fifo_open, listenerVars,
                  d_pc, ops, crash, timerVars, appended, dispatched, cmdVars >>

(***************************************************************************)
(* Pipe Listener: parse_incoming_commands.                                 *)
(***************************************************************************)
\* one poll: os.read returns a message (or nothing) and read_pipe parses it
ListenerRead(messages, bound) ==
  /\ l_pc = "read"
  /\ process_running
  /\ writes < bound
  /\ \E i \in 1..Len(messages) :
       /\ contents' = messages[i]
       /\ incoming' = read_pipe(messages[i])
       /\ writes' = writes + 1
       /\ l_pc' = IF incoming' # NoCmd THEN "acquire" ELSE "read"
  /\ UNCHANGED << routed, process_running, main_camera, queueVars, show_previews,
                  preview_dict_lock, cams, threads, fifo_open,
                  d_pc, ops, crash, timerVars, cmdVars >>

\* one poll in which os.read or decode raises.  BlockingIOError (no data) is
\* caught and read_pipe returns False; any other OSError, and the
\* UnicodeDecodeError of bytes that are not UTF-8, are caught nowhere and
\* end the listener thread.
ListenerReadRaises(bound) ==
  /\ l_pc = "read"
  /\ process_running
  /\ writes < bound
  /\ \E e \in {"BlockingIOError", "OSError", "UnicodeDecodeError"} :
       l_pc' = IF e = "BlockingIOError" THEN "read" ELSE "crashed"
  /\ contents' = <<>>
  /\ incoming' = NoCmd
  /\ writes' = writes + 1
  /\ UNCHANGED << routed, process_running, main_camera, queueVars, show_previews,
                  preview_dict_lock, cams, threads, fifo_open,
                  d_pc, ops, crash, timerVars, cmdVars >>

\* with CameraCoreModel.cmd_queue_lock: (blocking acquire)
ListenerAcquire ==
  /\ l_pc = "acquire"
  /\ cmd_queue_lock = "free"
  /\ cmd_queue_lock' = "listener"
  /\ l_pc' = "append"
  /\ UNCHANGED << routed, process_running, main_camera, command_queue, appended,
                  dispatched, show_previews, preview_dict_lock, cams, threads,
                  fifo_open, incoming, writes, contents,
                  d_pc, ops, crash, timerVars,
                  cmdVars >>

\* command_queue.append(incoming_cmd), and the release at the end of the with
ListenerAppend ==
  /\ l_pc = "append"
  /\ command_queue' = Append(command_queue, incoming)
  /\ appended' = Append(appended, incoming)
  /\ cmd_queue_lock' = "free"
  /\ l_pc' = "read"
  /\ UNCHANGED << routed, process_running, main_camera, dispatched, show_previews,
                  preview_dict_lock, cams, threads, fifo_open, incoming, writes,
                  contents,                   d_pc, ops, crash, timerVars, cmdVars >>

\* the while condition is false: the listener thread returns
ListenerExit ==
  /\ l_pc = "read"
  /\ ~process_running
  /\ l_pc' = "exited"
  /\ UNCHANGED << routed, process_running, main_camera, queueVars, show_previews,
                  preview_dict_lock, cams, threads, fifo_open, incoming, writes,
                  contents,                   d_pc, ops, crash, timerVars, cmdVars >>

(***************************************************************************)
(* Workers.  show_preview is the Preview Worker; the Motion Worker         *)
(* (utilities/motion_detect.py) is a loop that ends when the main camera's *)
(* status is halted.                                                       *)
(***************************************************************************)
\* show_preview: the loop test, then generate_preview takes the preview lock
PreviewLoop ==
  /\ threads.preview = "alive"
  /\ IF cams[main_camera].current_status = "halted"
     THEN /\ threads' = [threads EXCEPT !.preview = "dead"]
          /\ UNCHANGED preview_dict_lock
     ELSE /\ preview_dict_lock = "free"
          /\ preview_dict_lock' = "preview"
          /\ threads' = [threads EXCEPT !.preview = "capturing"]
  /\ UNCHANGED << routed, process_running, main_camera, queueVars, show_previews,
                  cams, fifo_open, listenerVars, d_pc, ops, crash, timerVars,
                  cmdVars >>

\* generate_preview: frames captured, lock released, then the frame sleep
PreviewGenerate ==
  /\ threads.preview = "capturing"
  /\ preview_dict_lock' = "free"
  /\ threads' = [threads EXCEPT !.preview = "alive"]
  /\ UNCHANGED << routed, process_running, main_camera, queueVars, show_previews,
                  cams, fifo_open, listenerVars, d_pc, ops, crash, timerVars,
                  cmdVars >>

\* motion_detection_thread: the loop test finds the main camera halted
MotionLoopExit ==
  /\ threads.motion = "alive"
  /\ cams[main_camera].current_status = "halted"
  /\ threads' = [threads EXCEPT !.motion = "dead"]
  /\ UNCHANGED << routed, process_running, main_camera, queueVars, show_previews,
                  preview_dict_lock, cams, fifo_open, listenerVars, d_pc, ops,
                  crash, timerVars, cmdVars >>

(***************************************************************************)
(* execute_command: the handlers that neither pause the workers nor stop a *)
(* controller.  The result is the cameras after the handler, the success   *)
(* flag, the exception that leaves execute_command ("" for none) and the   *)
(* names of the calls made on the controller.                              *)
(***************************************************************************)
Handled(cs, ok, exc, evs) == [cams |-> cs, success |-> ok, exc |-> exc, evs |-> evs]

\* the ca branch
CaHandle(cam, cmd_param, t) ==
  IF StartsWith(cmd_param, <<"1">>)
  THEN LET r == toggle_cam_record(cam, TRUE)
           duration == SliceFrom(cmd_param, 2)
       IN IF r.ret /\ IsNumeric(duration) /\ DigitsVal(duration) > 0
          THEN [cam |-> [r.cam EXCEPT !.record_until = t + DigitsVal(duration)],
                ret |-> TRUE]
          ELSE r
  ELSE [cam |-> toggle_cam_record([cam EXCEPT !.record_until = 0], FALSE).cam,
        ret |-> FALSE]

\* a faulty bi branch: the upper limit itself is refused
BiHandle_exclusive(cam, cmd_param) ==
  IF IsInt(cmd_param) /\ ToInt(cmd_param) >= 0 /\ ToInt(cmd_param) < MAX_BITRATE
  THEN [cam |-> [cam EXCEPT !.config.video_bitrate = ToInt(cmd_param)], ret |-> TRUE]
  ELSE [cam |-> cam, ret |-> FALSE]

\* the bi branch
BiHandle(cam, cmd_param) ==
  IF IsInt(cmd_param) /\ ToInt(cmd_param) >= 0 /\ ToInt(cmd_param) <= MAX_BITRATE
  THEN [cam |-> [cam EXCEPT !.config.video_bitrate = ToInt(cmd_param)], ret |-> TRUE]
  ELSE [cam |-> cam, ret |-> FALSE]

\* a faulty tv branch: the lower limit is 0
TvHandle_zero(cam, cmd_param) ==
  IF IsInt(cmd_param) /\ ToInt(cmd_param) >= 0 /\ ToInt(cmd_param) <= MAX_TL_INTERVAL
  THEN [cam |-> [cam EXCEPT !.config.tl_interval = ToInt(cmd_param)], ret |-> TRUE]
  ELSE [cam |-> cam, ret |-> FALSE]

\* the tv branch
TvHandle(cam, cmd_param) ==
  IF IsInt(cmd_param) /\ ToInt(cmd_param) >= 1 /\ ToInt(cmd_param) <= MAX_TL_INTERVAL
  THEN [cam |-> [cam EXCEPT !.config.tl_interval = ToInt(cmd_param)], ret |-> TRUE]
  ELSE [cam |-> cam, ret |-> FALSE]

\* the qu branch
QuHandle(cam, cmd_param) ==
  IF IsInt(cmd_param)
  THEN [cam |-> [cam EXCEPT !.config.image_quality = Max(1, Min(100, ToInt(cmd_param)))],
        ret |-> TRUE]
  ELSE [cam |-> cam, ret |-> FALSE]

\* the pv branch: ret is "True", "False" (ValueError, caught) or "IndexError"
PvHandle(cam, cmd_param) ==
  LET settings == Split(cmd_param, " ")
  IN IF Len(settings) < 2 THEN [cam |-> cam, ret |-> "IndexError"]
     ELSE IF ~IsInt(settings[2]) THEN [cam |-> cam, ret |-> "False"]
     ELSE IF Len(settings) < 3 THEN [cam |-> cam, ret |-> "IndexError"]
     ELSE IF ~IsInt(settings[3]) THEN [cam |-> cam, ret |-> "False"]
     ELSE IF Len(settings) > 3 /\ ~IsInt(settings[4]) THEN [cam |-> cam, ret |-> "False"]
     ELSE IF ~IsInt(settings[1]) THEN [cam |-> cam, ret |-> "False"]
     ELSE LET width == ToInt(settings[2])
              height == IF Len(settings) > 3 THEN ToInt(settings[4])
                        ELSE TruncDiv(width * 9, 16)
          IN [cam |-> [cam EXCEPT
                         !.config.preview_quality = Max(1, Min(100, ToInt(settings[1]))),
                         !.config.divider = ToInt(settings[3]),
                         !.config.preview_size = <<width, height>>],
              ret |-> "True"]

\* the tl branch: int(cmd_param) is not guarded
TlHandle(cs, main, index, cmd_param) ==
  IF ~IsInt(cmd_param) THEN Handled(cs, FALSE, "ValueError", <<>>)
  ELSE IF ToInt(cmd_param) = 1
  THEN LET c1 == [cs EXCEPT ![index].timelapse_on = TRUE,
                            ![index].timelapse_count = 1]
           c2 == [c1 EXCEPT ![main] = update_status_file(c1[main])]
       IN Handled([c2 EXCEPT ![index] = print_to_logfile(c2[index])], FALSE, "", <<>>)
  ELSE IF ToInt(cmd_param) = 0
  THEN LET c1 == [cs EXCEPT ![index].timelapse_on = FALSE]
           c2 == [c1 EXCEPT ![main] = update_status_file(c1[main])]
       IN Handled([c2 EXCEPT ![index] = print_to_logfile(c2[index])], FALSE, "", <<>>)
  ELSE Handled([cs EXCEPT ![index] = print_to_logfile(cs[index])], FALSE, "", <<>>)

\* the codes whose handler is one call on the Camera Record
RecordCodes ==
  {Code["ca"], Code["md"], Code["mx"], Code["mt"], Code["ms"], Code["mb"],
   Code["me"], Code["bi"], Code["an"], Code["sc"], Code["qu"], Code["pv"],
   Code["tv"]} \cup ImageAdjustCodes

RecordHandle(cam, cmd_code, cmd_param, t) ==
  CASE cmd_code = Code["ca"] ->
         LET r == CaHandle(cam, cmd_param, t)
         IN [cam |-> r.cam, ret |-> IF r.ret THEN "True" ELSE "False"]
    [] cmd_code = Code["md"] ->
         [cam |-> print_to_logfile(
                    [cam EXCEPT !.motion_detection =
                                  ~(cmd_param = <<"0">> \/ cmd_param = <<>>)]),
          ret |-> "False"]
    [] cmd_code = Code["mx"] ->
         [cam |-> IF cmd_param = <<"0">>
                  THEN [cam EXCEPT !.config.motion_mode = "internal"]
                  ELSE IF cmd_param = <<"2">>
                  THEN [cam EXCEPT !.config.motion_mode = "monitor"]
                  ELSE cam,
          ret |-> "False"]
    [] cmd_code \in {Code["mt"], Code["ms"], Code["mb"], Code["me"]} ->
         LET r == set_motion_params(cam, cmd_code, cmd_param)
         IN [cam |-> r.cam, ret |-> IF r.ret THEN "True" ELSE "False"]
    [] cmd_code = Code["bi"] ->
         LET r == BiHandle(cam, cmd_param)
         IN [cam |-> r.cam, ret |-> IF r.ret THEN "True" ELSE "False"]
    [] cmd_code = Code["an"] ->
         [cam |-> [cam EXCEPT !.config.annotation = cmd_param], ret |-> "True"]
    [] cmd_code = Code["sc"] -> [cam |-> cam, ret |-> "False"]
    [] cmd_code = Code["qu"] ->
         LET r == QuHandle(cam, cmd_param)
         IN [cam |-> r.cam, ret |-> IF r.ret THEN "True" ELSE "False"]
    [] cmd_code = Code["pv"] -> PvHandle(cam, cmd_param)
    [] cmd_code = Code["tv"] ->
         LET r == TvHandle(cam, cmd_param)
         IN [cam |-> r.cam, ret |-> IF r.ret THEN "True" ELSE "False"]
    [] cmd_code \in ImageAdjustCodes ->
         LET r == image_adjustment(cam, cmd_code, cmd_param)
         IN [cam |-> r.cam, ret |-> IF r.ret THEN "True" ELSE "False"]

\* the controller call a successful handler makes
ControlEvents(cmd_code, ok) ==
  IF ok /\ cmd_code \in ImageAdjustCodes \cup {Code["qu"]}
  THEN <<"set_controls">>
  ELSE <<>>

\* the branches of execute_command that complete in one step
SimpleHandle(cs, main, index, cmd_code, cmd_param, t) ==
  CASE cmd_code = Code["im"] -> Handled(cs, FALSE, "", <<"capture">>)
    [] cmd_code = Code["im+im"] ->
         Handled(cs, FALSE, "", <<"capture_stitched">>)
    [] cmd_code = Code["tl"] -> TlHandle(cs, main, index, cmd_param)
    [] cmd_code = Code["cn"] -> Handled(cs, FALSE, "", <<>>)
    [] cmd_code \in RecordCodes ->
         LET r == RecordHandle(cs[index], cmd_code, cmd_param, t)
         IN Handled([cs EXCEPT ![index] = r.cam], r.ret = "True",
                    IF r.ret \in {"True", "False"} THEN "" ELSE r.ret,
                    ControlEvents(cmd_code, r.ret = "True"))
    [] OTHER ->
         Handled([cs EXCEPT ![index] = print_to_logfile(cs[index])], FALSE, "", <<>>)

(***************************************************************************)
(* execute_command: the steps of the handlers that pause the workers or    *)
(* stop a controller, in the order the code takes them.                    *)
(***************************************************************************)
requires_full_restart ==
  {Code["px"], Code["rs"], Code["cs"], Code["cr"], Code["1s"], Code["ix"],
   Code["ix+ix"]}

requires_quick_restart == {Code["fl"]}

\* pause_preview_md_threads
PauseSteps == <<Op("pause_halt", 0), Op("pause_join", 0)>>

\* for cam in cams.values(): one step (or two) per camera, in slot order
ForEachCam(name) == [i \in 1..Len(SlotSeq) |-> Op(name, SlotSeq[i])]

ForEachCam2(name1, name2) ==
  [i \in 1..(2 * Len(SlotSeq)) |->
     IF i % 2 = 1 THEN Op(name1, SlotSeq[(i + 1) \div 2])
     ELSE Op(name2, SlotSeq[i \div 2])]

\* the steps of one execute_command call on a camera that is not halted
\* (any camera for ru)
Plan(index, cmd_code, cmd_param) ==
  CASE cmd_code = Code["ru"] /\ StartsWith(cmd_param, <<"0">>) ->
         PauseSteps \o ForEachCam("stop_all") \o <<Op("finish", index)>>
    [] cmd_code = Code["ru"] /\ ~StartsWith(cmd_param, <<"0">>) ->
         ForEachCam2("restart_stop", "restart_reload")
           \o <<Op("start_threads", index), Op("finish", index)>>
    [] cmd_code = Code["dp"] ->
         <<Op("set_previews", index), Op("finish", index)>>
    [] cmd_code = Code["cn"] /\ IsInt(cmd_param) /\ ToInt(cmd_param) \in Slots ->
         PauseSteps \o <<Op("set_main", ToInt(cmd_param)),
                         Op("start_threads", index), Op("finish", index)>>
    [] cmd_code = Code["ix"] ->
         PauseSteps \o <<Op("ix_max", index), Op("restart_start", index),
                         Op("capture", index),
                         Op("ix_revert", index), Op("restart_start", index),
                         Op("set_previews", index), Op("start_threads", index),
                         Op("finish", index)>>
    [] cmd_code = Code["ix+ix"] ->
         PauseSteps \o <<Op("stop_all", index)>>
           \o ForEachCam2("ix_max", "restart_start")
           \o <<Op("capture_stitched", index)>>
           \o ForEachCam2("ix_revert", "restart_start")
           \o <<Op("set_previews", index), Op("start_threads", index),
                Op("finish", index)>>
    [] cmd_code \in requires_full_restart \ {Code["ix"], Code["ix+ix"]} ->
         PauseSteps \o <<Op("stop_all", index), Op("configure", index),
                         Op("restart_stop", index), Op("restart_start", index),
                         Op("set_previews", index), Op("start_threads", index),
                         Op("finish", index)>>
    [] cmd_code \in requires_quick_restart ->
         PauseSteps \o <<Op("picam_stop", index), Op("configure", index),
                         Op("restart_stop", index), Op("restart_start", index),
                         Op("start_threads", index), Op("finish", index)>>
    [] OTHER -> <<Op("finish", index)>>

\* execute_all_commands: one execute_command per member, then the status
\* file of the main camera
Calls(cmd, main) ==
  (IF cmd.grp
   THEN [i \in 1..Len(cmd.codes) |-> BeginOp(i - 1, cmd.codes[i], cmd.params[i])]
   ELSE <<BeginOp(main, cmd.codes[1], cmd.params[1])>>)
  \o <<Op("publish", 0)>>

\* the commands execute_command carries out in more than one step
Stepped(cmd_code, cmd_param) ==
  \/ cmd_code \in {Code["ru"], Code["dp"]} \cup requires_full_restart \cup requires_quick_restart
  \/ cmd_code = Code["cn"] /\ IsInt(cmd_param) /\ ToInt(cmd_param) \in Slots

Snapshot == [cams |-> cams, main_camera |-> main_camera, threads |-> threads]

Events(names, c) == [i \in 1..Len(names) |-> Event(names[i], c)]

envVars == << process_running, fifo_open, listenerVars, queueVars, timerVars >>

\* a faulty halted check: it looks at the main camera, not the addressed one
Refused_main_camera(cs, index, cmd_code) ==
  cmd_code # Code["ru"] /\ cs[main_camera].current_status = "halted"

\* the halted check: the branch taken when the code is not ru and the
\* addressed camera's status is halted
Refused(cs, index, cmd_code) ==
  cmd_code # Code["ru"] /\ cs[index].current_status = "halted"

\* a faulty macro call: subprocess.run without check=True, so that a
\* non-zero exit status raises nothing
execute_macro_command_unchecked(isfile, executable, status) ==
  isfile /\ executable

\* execute_macro_command: the result, given whether the script is a file,
\* whether it is executable, and the exit status of the process
execute_macro_command(isfile, executable, status) ==
  IF ~isfile THEN FALSE
  ELSE IF ~executable THEN FALSE
  ELSE status = 0

\* a faulty entry check: the test for a blank code is missing
Dropped_missing_only(index, cmd_code) == index \notin Slots

\* the entry checks: no camera at the index, or a blank code
Dropped(index, cmd_code) == index \notin Slots \/ cmd_code = <<>>

(***************************************************************************)
(* Main thread: execute_command from its entry to the handler it selects.  *)
(***************************************************************************)
ExecuteCommand ==
  /\ d_pc = "exec"
  /\ ops # <<>>
  /\ Head(ops).op = "begin"
  /\ LET index == Head(ops).cam
         cmd_code == Head(ops).code
         cmd_param == Head(ops).param
         entry == [index |-> index, code |-> cmd_code, param |-> cmd_param,
                   phase |-> "running", refused |-> FALSE]
     IN /\ pre' = Snapshot
        /\ reconfiguring' = {}
        /\ routed' = [routed EXCEPT !.calls =
                        Append(@, [index |-> index, code |-> cmd_code,
                                   param |-> cmd_param])]
        /\ UNCHANGED << main_camera, show_previews, preview_dict_lock, threads,
                        orig_dims, envVars >>
        /\ IF Dropped(index, cmd_code)
           THEN \* no camera in the slot, or a blank command: return
                /\ cur' = [entry EXCEPT !.phase = "done"]
                /\ ops' = Tail(ops)
                /\ trace' = <<>>
                /\ UNCHANGED << cams, success, d_pc, crash >>
           ELSE IF Refused(cams, index, cmd_code)
           THEN \* "Camera status is halted. Cannot execute command."
                /\ cur' = [entry EXCEPT !.refused = TRUE]
                /\ ops' = <<Op("finish", index)>> \o Tail(ops)
                /\ success' = FALSE
                /\ trace' = <<>>
                /\ UNCHANGED << cams, d_pc, crash >>
           ELSE IF cmd_code = Code["sy"]
           THEN \* execute_macro_command, whatever its result, then return;
                \* the script's file, its mode and its exit status are the
                \* environment's, recorded after the call in the trace
                /\ cur' = [entry EXCEPT !.phase = "done"]
                /\ ops' = Tail(ops)
                /\ \E isfile \in BOOLEAN, executable \in BOOLEAN, status \in {0, 1} :
                     /\ success' = execute_macro_command(isfile, executable, status)
                     /\ trace' = Events(<<"macro",
                                          IF ~isfile THEN "script_missing"
                                          ELSE IF ~executable THEN "script_not_executable"
                                          ELSE IF status = 0 THEN "exit_zero"
                                          ELSE "exit_nonzero">>, index)
                /\ UNCHANGED << cams, d_pc, crash >>
           ELSE IF Stepped(cmd_code, cmd_param)
           THEN /\ cur' = entry
                /\ ops' = Plan(index, cmd_code, cmd_param) \o Tail(ops)
                /\ success' = (cmd_code = Code["dp"])
                /\ cams' = IF cmd_code = Code["dp"]
                           THEN [cams EXCEPT ![index].show_preview =
                                               (cmd_param # <<"0">>)]
                           ELSE cams
                /\ trace' = <<>>
                /\ UNCHANGED << d_pc, crash >>
           ELSE LET h == SimpleHandle(cams, main_camera, index, cmd_code,
                                      cmd_param, now)
                IN /\ cams' = h.cams
                   /\ success' = h.success
                   /\ trace' = Events(h.evs, index)
                   /\ cur' = entry
                   /\ IF h.exc # ""
                      THEN /\ d_pc' = "crashed"
                           /\ crash' = h.exc
                           /\ UNCHANGED ops
                      ELSE /\ ops' = <<Op("finish", index)>> \o Tail(ops)
                           /\ UNCHANGED << d_pc, crash >>

\* an enabled step of the command in progress
AtOp(name) ==
  /\ d_pc = "exec"
  /\ ops # <<>>
  /\ Head(ops).op = name

\* a faulty pause: the status is not set to halted before the joins
PauseSetHalted_skipped ==
  /\ AtOp("pause_halt")
  /\ trace' = Append(trace, Event("pause", main_camera))
  /\ ops' = Tail(ops)
  /\ UNCHANGED << routed, main_camera, show_previews, preview_dict_lock, threads, d_pc,
                  cams, crash, cur, success, orig_dims, pre, reconfiguring, envVars >>

\* pause_preview_md_threads: the main camera's status is set to halted
PauseSetHalted ==
  /\ AtOp("pause_halt")
  /\ cams' = [cams EXCEPT ![main_camera].current_status = "halted"]
  /\ trace' = Append(trace, Event("pause", main_camera))
  /\ ops' = Tail(ops)
  /\ UNCHANGED << routed, main_camera, show_previews, preview_dict_lock, threads, d_pc,
                  crash, cur, success, orig_dims, pre, reconfiguring, envVars >>

\* a faulty pause: the workers are replaced without being joined
PauseJoin_nowait ==
  /\ AtOp("pause_join")
  /\ cams' = [cams EXCEPT ![main_camera] = set_status(@, "")]
  /\ threads' = FreshThreads
  /\ trace' = Append(trace, Event("joined", main_camera))
  /\ ops' = Tail(ops)
  /\ UNCHANGED << routed, main_camera, show_previews, preview_dict_lock, d_pc,
                  crash, cur, success, orig_dims, pre, reconfiguring, envVars >>

\* pause_preview_md_threads: both joins have returned; status recomputed and
\* a fresh, unstarted pair of workers installed
PauseJoin ==
  /\ AtOp("pause_join")
  /\ ~WorkersAlive
  /\ cams' = [cams EXCEPT ![main_camera] = set_status(@, "")]
  /\ threads' = FreshThreads
  /\ trace' = Append(trace, Event("joined", main_camera))
  /\ ops' = Tail(ops)
  /\ UNCHANGED << routed, main_camera, show_previews, preview_dict_lock, d_pc,
                  crash, cur, success, orig_dims, pre, reconfiguring, envVars >>

\* cam.stop_all()
StopAll ==
  /\ AtOp("stop_all")
  /\ LET c == Head(ops).cam
     IN /\ cams' = [cams EXCEPT ![c] = stop_all(@)]
        /\ trace' = Append(trace, Event("stop", c))
        /\ reconfiguring' = reconfiguring \cup {c}
  /\ ops' = Tail(ops)
  /\ UNCHANGED << routed, main_camera, show_previews, preview_dict_lock, threads, d_pc,
                  crash, cur, success, orig_dims, pre, envVars >>

\* picam2.stop(): the first statement of restart(), and of the fl handler
PicamStop ==
  /\ AtOp("picam_stop") \/ AtOp("restart_stop")
  /\ LET c == Head(ops).cam
     IN /\ cams' = [cams EXCEPT ![c].started = FALSE]
        /\ trace' = Append(trace, Event("stop", c))
        /\ reconfiguring' = reconfiguring \cup {c}
  /\ ops' = Tail(ops)
  /\ UNCHANGED << routed, main_camera, show_previews, preview_dict_lock, threads, d_pc,
                  crash, cur, success, orig_dims, pre, envVars >>

\* success = model.set_camera_configuration(cmd_code, cmd_param)
Configure ==
  /\ AtOp("configure")
  /\ LET c == Head(ops).cam
         r == set_camera_configuration(cams[c], cur.code, cur.param)
     IN /\ cams' = [cams EXCEPT ![c] = r.cam]
        /\ trace' = Append(trace, Event("configure", c))
        /\ IF r.ret \in {"True", "False"}
           THEN /\ success' = (r.ret = "True")
                /\ ops' = Tail(ops)
                /\ UNCHANGED << d_pc, crash >>
           ELSE /\ d_pc' = "crashed"
                /\ crash' = r.ret
                /\ UNCHANGED << success, ops >>
  /\ UNCHANGED << routed, main_camera, show_previews, preview_dict_lock, threads,
                  cur, orig_dims, pre, reconfiguring, envVars >>

\* ix and ix+ix: stop_all, remember the dimensions, configure the maximum
\* resolution, and the picam2.stop() that opens restart(False)
IxMax ==
  /\ AtOp("ix_max")
  /\ LET c == Head(ops).cam
         stopped == stop_all(cams[c])
     IN /\ orig_dims' = [orig_dims EXCEPT ![c] =
                           << stopped.config.image_width,
                              stopped.config.image_height,
                              stopped.config.picam_buffer_count >>]
        /\ cams' = [cams EXCEPT ![c] =
                      IxConfigure(stopped, <<SensorRes[1], SensorRes[2], 1>>, 0)]
        /\ trace' = trace \o <<Event("stop", c), Event("configure", c)>>
        /\ reconfiguring' = reconfiguring \cup {c}
  /\ ops' = Tail(ops)
  /\ UNCHANGED << routed, main_camera, show_previews, preview_dict_lock, threads, d_pc,
                  crash, cur, success, pre, envVars >>

\* ix and ix+ix: picam2.stop(), the remembered dimensions configured again,
\* and the picam2.stop() that opens restart(False)
IxRevert ==
  /\ AtOp("ix_revert")
  /\ LET c == Head(ops).cam
     IN /\ cams' = [cams EXCEPT ![c] =
                      IxConfigure([@ EXCEPT !.started = FALSE], orig_dims[c], 1)]
        /\ trace' = trace \o <<Event("stop", c), Event("configure", c)>>
        /\ reconfiguring' = reconfiguring \cup {c}
  /\ ops' = Tail(ops)
  /\ UNCHANGED << routed, main_camera, show_previews, preview_dict_lock, threads, d_pc,
                  crash, cur, success, orig_dims, pre, envVars >>

\* restart(False) after its picam2.stop(): picam2.start() and status "ready"
RestartStart ==
  /\ AtOp("restart_start")
  /\ LET c == Head(ops).cam
     IN /\ cams' = [cams EXCEPT ![c].started = TRUE,
                                ![c].current_status = "ready"]
        /\ trace' = Append(trace, Event("start", c))
        /\ reconfiguring' = reconfiguring \ {c}
  /\ ops' = Tail(ops)
  /\ UNCHANGED << routed, main_camera, show_previews, preview_dict_lock, threads, d_pc,
                  crash, cur, success, orig_dims, pre, envVars >>

\* restart(True) after its picam2.stop(): the settings file is read back, the
\* configuration rebuilt, then picam2.start() and status "ready"
RestartReload ==
  /\ AtOp("restart_reload")
  /\ LET c == Head(ops).cam
         r == process_configs_from_file(cams[c])
     IN IF r.ret = "ok"
        THEN /\ cams' = [cams EXCEPT ![c] =
                           [build_configuration_object(r.cam) EXCEPT
                              !.started = TRUE, !.current_status = "ready"]]
             /\ trace' = trace \o <<Event("configure", c), Event("start", c)>>
             /\ reconfiguring' = reconfiguring \ {c}
             /\ ops' = Tail(ops)
             /\ UNCHANGED << d_pc, crash >>
        ELSE /\ cams' = [cams EXCEPT ![c] = r.cam]
             /\ d_pc' = "crashed"
             /\ crash' = r.ret
             /\ UNCHANGED << trace, reconfiguring, ops >>
  /\ UNCHANGED << routed, main_camera, show_previews, preview_dict_lock, threads,
                  cur, success, orig_dims, pre, envVars >>

\* capture_still_image / capture_stitched_image inside ix and ix+ix
Capture ==
  /\ AtOp("capture") \/ AtOp("capture_stitched")
  /\ trace' = Append(trace, Event(Head(ops).op, Head(ops).cam))
  /\ ops' = Tail(ops)
  /\ UNCHANGED << routed, main_camera, show_previews, preview_dict_lock, cams, threads,
                  d_pc, crash, cur, success, orig_dims, pre, reconfiguring,
                  envVars >>

\* set_previews: under the preview lock
set_previews ==
  /\ AtOp("set_previews")
  /\ preview_dict_lock = "free"
  /\ show_previews' = [c \in Slots |-> cams[c].show_preview]
  /\ ops' = Tail(ops)
  /\ UNCHANGED << routed, main_camera, preview_dict_lock, cams, threads, d_pc, crash,
                  cur, success, orig_dims, trace, pre, reconfiguring, envVars >>

\* Thread.start(): a thread whose loop has returned cannot be started again
StartOne(st) == IF st = "new" THEN "alive" ELSE st

\* start_preview_md_threads
start_preview_md_threads ==
  /\ AtOp("start_threads")
  /\ trace' = Append(trace, Event("start_threads", Head(ops).cam))
  /\ IF threads.preview = "dead"
     THEN /\ d_pc' = "crashed"
          /\ crash' = "RuntimeError"
          /\ UNCHANGED << threads, ops >>
     ELSE IF threads.motion = "dead"
     THEN /\ threads' = [threads EXCEPT !.preview = StartOne(@)]
          /\ d_pc' = "crashed"
          /\ crash' = "RuntimeError"
          /\ UNCHANGED ops
     ELSE /\ threads' = [preview |-> StartOne(threads.preview),
                         motion |-> StartOne(threads.motion)]
          /\ ops' = Tail(ops)
          /\ UNCHANGED << d_pc, crash >>
  /\ UNCHANGED << routed, main_camera, show_previews, preview_dict_lock, cams,
                  cur, success, orig_dims, pre, reconfiguring, envVars >>

\* a faulty assignment: the slot after the one named
SetMain_next ==
  /\ AtOp("set_main")
  /\ main_camera' = Head(ops).cam + 1
  /\ ops' = Tail(ops)
  /\ UNCHANGED << routed, show_previews, preview_dict_lock, cams, threads, d_pc, crash,
                  cur, success, orig_dims, trace, pre, reconfiguring, envVars >>

\* cn: CameraCoreModel.main_camera = new_main
SetMain ==
  /\ AtOp("set_main")
  /\ main_camera' = Head(ops).cam
  /\ ops' = Tail(ops)
  /\ UNCHANGED << routed, show_previews, preview_dict_lock, cams, threads, d_pc, crash,
                  cur, success, orig_dims, trace, pre, reconfiguring, envVars >>

\* the end of execute_command: the log line, and the settings file if the
\* command succeeded
Finish ==
  /\ AtOp("finish")
  /\ LET c == Head(ops).cam
         logged == print_to_logfile(cams[c])
     IN cams' = [cams EXCEPT ![c] =
                   IF success THEN write_to_user_config(logged, cur.code, cur.param)
                   ELSE logged]
  /\ cur' = [cur EXCEPT !.phase = "done"]
  /\ ops' = Tail(ops)
  /\ UNCHANGED << routed, main_camera, show_previews, preview_dict_lock, threads, d_pc,
                  crash, success, orig_dims, trace, pre, reconfiguring, envVars >>

\* the end of execute_all_commands: update_status_file(main camera)
Publish ==
  /\ AtOp("publish")
  /\ cams' = [cams EXCEPT ![main_camera] = update_status_file(@)]
  /\ cur' = [cur EXCEPT !.phase = IF @ = "idle" THEN @ ELSE "published"]
  /\ routed' = [routed EXCEPT !.calls =
                  Append(@, [index |-> main_camera, code |-> <<"publish">>,
                             param |-> <<>>])]
  /\ ops' = <<>>
  /\ d_pc' = "poll"
  /\ UNCHANGED << main_camera, show_previews, preview_dict_lock, threads,
                  crash, success, orig_dims, trace, pre, reconfiguring, envVars >>

(***************************************************************************)
(* Main thread: the command loop of start_background_process.              *)
(***************************************************************************)
\* a faulty condition: the queue is popped without the lock being taken
CanPop_unlocked ==
  /\ command_queue # <<>>
  /\ cams[main_camera].current_status # ""

\* the three-part condition of the pop, evaluated left to right
CanPop ==
  /\ command_queue # <<>>
  /\ cmd_queue_lock = "free"
  /\ cams[main_camera].current_status # ""

\* a faulty pop: command_queue.pop() takes the newest command
MainLoopPop_newest ==
  /\ d_pc = "loop"
  /\ process_running
  /\ CanPop
  /\ command_queue' = SubSeq(command_queue, 1, Len(command_queue) - 1)
  /\ dispatched' = Append(dispatched, command_queue[Len(command_queue)])
  /\ ops' = Calls(command_queue[Len(command_queue)], main_camera)
  /\ routed' = [cmd |-> command_queue[Len(command_queue)], main |-> main_camera,
                calls |-> <<>>]
  /\ d_pc' = "exec"
  /\ UNCHANGED << process_running, main_camera, cmd_queue_lock, appended,
                  show_previews, preview_dict_lock, cams, threads, fifo_open,
                  listenerVars, crash, timerVars, cmdVars >>

\* next_cmd = command_queue.pop(0); release; execute_all_commands(next_cmd)
MainLoopPop ==
  /\ d_pc = "loop"
  /\ process_running
  /\ CanPop
  /\ command_queue' = Tail(command_queue)
  /\ dispatched' = Append(dispatched, Head(command_queue))
  /\ ops' = Calls(Head(command_queue), main_camera)
  /\ routed' = [cmd |-> Head(command_queue), main |-> main_camera,
                calls |-> <<>>]
  /\ d_pc' = "exec"
  /\ UNCHANGED << process_running, main_camera, cmd_queue_lock, appended,
                  show_previews, preview_dict_lock, cams, threads, fifo_open,
                  listenerVars, crash, timerVars, cmdVars >>

\* the condition is false: nothing is popped.  When only its third part is
\* false the lock has been acquired and is not released.
MainLoopSkip ==
  /\ d_pc = "loop"
  /\ process_running
  /\ ~CanPop
  /\ cmd_queue_lock' = IF command_queue # <<>> /\ cmd_queue_lock = "free"
                       THEN "dispatcher" ELSE cmd_queue_lock
  /\ d_pc' = "poll"
  /\ UNCHANGED << routed, process_running, main_camera, command_queue, appended,
                  dispatched, show_previews, preview_dict_lock, cams, threads,
                  fifo_open, listenerVars, ops, crash, timerVars, cmdVars >>

\* a faulty deadline check: the comparison with the clock is missing
CheckDeadline_early(cam, t) ==
  IF cam.record_until # 0
  THEN [toggle_cam_record(cam, FALSE).cam EXCEPT !.record_until = 0]
  ELSE cam

\* the recording deadline of one camera
CheckDeadline(cam, t) ==
  IF cam.record_until # 0 /\ cam.record_until <= t
  THEN [toggle_cam_record(cam, FALSE).cam EXCEPT !.record_until = 0]
  ELSE cam

\* the rest of one loop iteration: recording deadlines, the timelapse
\* counter, and the sleep, during which the clock may advance.  The clock is
\* only read against a recording deadline, so its advance is followed only
\* while a deadline is pending.
MainLoopPoll ==
  /\ d_pc = "poll"
  /\ cams' = [c \in Slots |-> CheckDeadline(cams[c], now)]
  /\ timelapse_timer' =
       IF cams'[main_camera].timelapse_on
       THEN IF timelapse_timer + 1 > tl_interval_loops THEN 0
            ELSE timelapse_timer + 1
       ELSE timelapse_timer
  /\ \E t \in {now, now + 1} :
       /\ t <= MaxTime
       /\ t # now => \E c \in Slots : cams'[c].record_until # 0
       /\ now' = t
  /\ d_pc' = "loop"
  /\ UNCHANGED << routed, process_running, main_camera, queueVars, show_previews,
                  preview_dict_lock, threads, fifo_open, listenerVars, ops,
                  crash, tl_interval_loops, cmdVars >>

\* process_running is false: the loop ends and every camera is marked halted
MainLoopExit ==
  /\ d_pc = "loop"
  /\ ~process_running
  /\ cams' = [c \in Slots |-> [cams[c] EXCEPT !.current_status = "halted"]]
  /\ d_pc' = "join_listener"
  /\ UNCHANGED << routed, process_running, main_camera, queueVars, show_previews,
                  preview_dict_lock, threads, fifo_open, listenerVars, ops,
                  crash, timerVars, cmdVars >>

\* cmd_processing_thread.join(): returns once the thread has ended
ShutdownJoinListener ==
  /\ d_pc = "join_listener"
  /\ l_pc \in {"exited", "crashed"}
  /\ d_pc' = "join_workers"
  /\ UNCHANGED << routed, process_running, main_camera, queueVars, show_previews,
                  preview_dict_lock, cams, threads, fifo_open, listenerVars,
                  ops, crash, timerVars, cmdVars >>

\* for t in threads: if t.is_alive(): t.join()
ShutdownJoinWorkers ==
  /\ d_pc = "join_workers"
  /\ ~WorkersAlive
  /\ d_pc' = "teardown"
  /\ UNCHANGED << routed, process_running, main_camera, queueVars, show_previews,
                  preview_dict_lock, cams, threads, fifo_open, listenerVars,
                  ops, crash, timerVars, cmdVars >>

\* teardown and status file of every camera, then os.close(fifo_fd)
ShutdownTeardown ==
  /\ d_pc = "teardown"
  /\ cams' = [c \in Slots |-> update_status_file(teardown(cams[c]))]
  /\ fifo_open' = FALSE
  /\ d_pc' = "done"
  /\ UNCHANGED << routed, process_running, main_camera, queueVars, show_previews,
                  preview_dict_lock, threads, listenerVars, ops, crash,
                  timerVars, cmdVars >>

(***************************************************************************)
(* The daemon.                                                             *)
(***************************************************************************)
Dispatch ==
  \/ ExecuteCommand
  \/ PauseSetHalted
  \/ PauseJoin
  \/ StopAll
  \/ PicamStop
  \/ Configure
  \/ IxMax
  \/ IxRevert
  \/ RestartStart
  \/ RestartReload
  \/ Capture
  \/ set_previews
  \/ start_preview_md_threads
  \/ SetMain
  \/ Finish
  \/ Publish

Workers ==
  \/ PreviewLoop
  \/ PreviewGenerate
  \/ MotionLoopExit

Next ==
  \/ on_sigint_sigterm
  \/ ListenerRead(Pool, MaxWrites)
  \/ ListenerAcquire
  \/ ListenerAppend
  \/ ListenerExit
  \/ MainLoopPop
  \/ MainLoopSkip
  \/ MainLoopPoll
  \/ MainLoopExit
  \/ ShutdownJoinListener
  \/ ShutdownJoinWorkers
  \/ ShutdownTeardown
  \/ Dispatch
  \/ Workers

Spec == Init /\ [][Next]_vars

(***************************************************************************)
(* The daemon with a pipe whose reads can fail and a producer that writes  *)
(* at most once, under a scheduler that lets every thread that can run     *)
(* take its next step.                                                     *)
(***************************************************************************)
NextDaemon ==
  \/ on_sigint_sigterm
  \/ ListenerRead(Pool, 1)
  \/ ListenerReadRaises(1)
  \/ ListenerAcquire
  \/ ListenerAppend
  \/ ListenerExit
  \/ MainLoopPop
  \/ MainLoopSkip
  \/ MainLoopPoll
  \/ MainLoopExit
  \/ ShutdownJoinListener
  \/ ShutdownJoinWorkers
  \/ ShutdownTeardown
  \/ Dispatch
  \/ Workers

SpecDaemon ==
  /\ Init
  /\ [][NextDaemon]_vars
  /\ WF_vars(MainLoopPop \/ MainLoopSkip \/ MainLoopPoll \/ MainLoopExit
               \/ ShutdownJoinListener \/ ShutdownJoinWorkers
               \/ ShutdownTeardown \/ Dispatch)
  /\ WF_vars(ListenerAcquire \/ ListenerAppend \/ ListenerExit)
  /\ WF_vars(Workers)

(***************************************************************************)
(* execute_all_commands called directly with a command tuple, as the unit  *)
(* tests call it; writes counts the calls.                                 *)
(***************************************************************************)
ExecInvoke ==
  /\ d_pc = "loop"
  /\ writes < MaxCalls
  /\ \E i \in 1..Len(ExecPool) :
       /\ ops' = Calls(ExecPool[i], main_camera)
       /\ routed' = [cmd |-> ExecPool[i], main |-> main_camera, calls |-> <<>>]
  /\ writes' = writes + 1
  /\ d_pc' = "exec"
  /\ UNCHANGED << process_running, main_camera, queueVars, show_previews,
                  preview_dict_lock, cams, threads, fifo_open, l_pc, incoming,
                  contents, crash, timerVars, cmdVars >>

NextExec ==
  \/ ExecInvoke
  \/ MainLoopPoll
  \/ Dispatch
  \/ Workers

SpecExec == Init /\ [][NextExec]_vars

(***************************************************************************)
(* The daemon under a producer that writes the same short command over and *)
(* over.                                                                   *)
(***************************************************************************)
NextFlood ==
  \/ ListenerRead(FloodPool, MaxFlood)
  \/ ListenerAcquire
  \/ ListenerAppend
  \/ MainLoopPop
  \/ MainLoopSkip
  \/ MainLoopPoll
  \/ ExecuteCommand
  \/ Finish
  \/ Publish
  \/ PreviewLoop
  \/ PreviewGenerate

SpecFlood == Init /\ [][NextFlood]_vars

(***************************************************************************)
(* The daemon under a producer that writes one recording command and then  *)
(* nothing more.  The main thread keeps running its loop, and the          *)
(* monotonic clock keeps advancing across the loop's sleeps.               *)
(***************************************************************************)
NextRecord ==
  \/ ListenerRead(RecordPool, 1)
  \/ ListenerAcquire
  \/ ListenerAppend
  \/ MainLoopPop
  \/ MainLoopSkip
  \/ MainLoopPoll
  \/ ExecuteCommand
  \/ Finish
  \/ Publish

SpecRecord ==
  /\ Init
  /\ [][NextRecord]_vars
  /\ WF_vars(MainLoopPop \/ MainLoopSkip \/ MainLoopPoll \/ ExecuteCommand
               \/ Finish \/ Publish)
  /\ SF_vars(MainLoopPoll /\ now' = now + 1)

(***************************************************************************)
(* set_status called on a Camera Record in any state of its flags and any  *)
(* previous status.                                                        *)
(***************************************************************************)
StatusValues ==
  {"", "halted", "ready", "md_ready", "timelapse", "tl_md_ready", "image",
   "video", "md_video", "tl_video", "tl_md_video", "Error", "Error: camera",
   "custom_status"}

\* the statuses callers pass to set_status
StatusArgs ==
  {"halted", "ready", "video", "Error", "Error: camera", "custom_status"}

InitStatus ==
  /\ contents = <<>>
  /\ \E started \in BOOLEAN, still \in BOOLEAN, video \in BOOLEAN,
        md \in BOOLEAN, tl \in BOOLEAN, status \in StatusValues :
    InitFrom([InitCams([c \in Slots |-> TRUE]) EXCEPT
                ![0].started = started,
                ![0].capturing_still = still,
                ![0].capturing_video = video,
                ![0].motion_detection = md,
                ![0].timelapse_on = tl,
                ![0].current_status = status])

\* cam.set_status()
SetStatusDerived ==
  /\ cur.phase # "status_derived"
  /\ pre' = Snapshot
  /\ cams' = [cams EXCEPT ![0] = set_status(@, "")]
  /\ cur' = [NoCur EXCEPT !.phase = "status_derived"]
  /\ UNCHANGED << routed, main_camera, show_previews, preview_dict_lock, threads, d_pc,
                  ops, crash, success, orig_dims, trace, reconfiguring, envVars >>

\* cam.set_status(status)
SetStatusExplicit ==
  /\ \E status \in StatusArgs :
       /\ cams' = [cams EXCEPT ![0] = set_status(@, status)]
       /\ trace' = <<Event(status, 0)>>
  /\ pre' = Snapshot
  /\ cur' = [NoCur EXCEPT !.phase = "status_explicit"]
  /\ UNCHANGED << routed, main_camera, show_previews, preview_dict_lock, threads, d_pc,
                  ops, crash, success, orig_dims, reconfiguring, envVars >>

NextStatus ==
  \/ SetStatusDerived
  \/ SetStatusExplicit

SpecStatus == InitStatus /\ [][NextStatus]_vars

(***************************************************************************)
(* The Pipe Listener alone, polling a pipe that holds one message: any     *)
(* short text over the characters the parser distinguishes, a group        *)
(* message built from a bracketed code list and a parameter part, or one   *)
(* of the command messages.                                                *)
(***************************************************************************)
\* the texts of at most n characters over an alphabet
Texts(alphabet, n) == UNION {[1..k -> alphabet] : k \in 0..n}

ParseInputs ==
  LET pieces == {Code["md"], <<>>, <<"z", "z">>, <<" ">> \o Code["fl"]}
      lists == UNION {[1..k -> pieces] : k \in 1..MaxCodes}
      head(l) == <<"[">> \o l[1]
                 \o (IF Len(l) > 1 THEN <<",">> \o l[2] ELSE <<>>)
                 \o (IF Len(l) > 2 THEN <<",">> \o l[3] ELSE <<>>)
                 \o <<"]">>
      bracketed == {<<" ", "[">> \o p \o <<"]">> :
                      p \in Texts({",", "/", "a"}, MaxParamText)}
      tails == {<<>>, <<" ", "1">>, <<" ", "[", "a">>} \cup bracketed
  IN Texts({"[", "]", ",", "/", " ", "m", "d", "z"}, MaxText)
     \cup {head(l) \o t : l \in lists, t \in tails}
     \cup {Messages[i] : i \in 1..Len(Messages)}

InitParse ==
  /\ contents \in ParseInputs
  /\ InitFrom(InitCams([c \in Slots |-> TRUE]))

\* one poll of parse_incoming_commands: read_pipe on the text in the pipe
ListenerParse ==
  /\ l_pc = "read"
  /\ process_running
  /\ writes = 0
  /\ incoming' = read_pipe(contents)
  /\ writes' = 1
  /\ l_pc' = IF incoming' # NoCmd THEN "acquire" ELSE "read"
  /\ UNCHANGED << routed, process_running, main_camera, queueVars, show_previews,
                  preview_dict_lock, cams, threads, fifo_open, contents,
                  d_pc, ops, crash, timerVars, cmdVars >>

NextParse ==
  \/ ListenerParse
  \/ ListenerAcquire
  \/ ListenerAppend

SpecParse == InitParse /\ [][NextParse]_vars

(***************************************************************************)
(* Properties.                                                             *)
(***************************************************************************)
\* the command in progress, or just completed, addresses an existing camera
CurAddressed ==
  /\ cur.phase \in {"running", "done"}
  /\ cur.index \in Slots
  /\ cur.code # <<>>

\* positions of the calls of one kind made by the command in progress
Calls_of(name) == {i \in 1..Len(trace) : trace[i].ev = name}

\* C1: at all times the commands handed to execute_all_commands, followed by
\* the commands still queued, are exactly the commands appended, in order; so
\* the dispatched sequence is a prefix of the appended one, with no command
\* dispatched twice and none skipped.
C1_DispatchedIsPrefix ==
  /\ appended = dispatched \o command_queue
  /\ Len(dispatched) <= Len(appended)
  /\ SubSeq(appended, 1, Len(dispatched)) = dispatched

\* two different commands were queued together and both have been dispatched
C1_Witness ==
  /\ Len(dispatched) = 2
  /\ dispatched[1] # dispatched[2]
  /\ Len(appended) = 2

\* C2 (as claimed): no execution ends, by shutdown or by the death of the main
\* thread, with a validated command still undispatched in the queue.
C2_NothingLeftQueued ==
  d_pc \in {"done", "crashed"} => command_queue = <<>>

\* C3 (as claimed): the queue never holds more than FIFO_MAX commands.
C3_QueueBounded == Len(command_queue) <= FIFO_MAX

\* what C4 requires to stay as it was
Untouched(a, b) ==
  /\ a.started = b.started
  /\ a.encoder_running = b.encoder_running
  /\ a.capturing_still = b.capturing_still
  /\ a.capturing_video = b.capturing_video
  /\ a.motion_detection = b.motion_detection
  /\ a.timelapse_on = b.timelapse_on
  /\ a.config = b.config
  /\ a.camera_config = b.camera_config
  /\ a.record_until = b.record_until
  /\ a.write_to_config = b.write_to_config
  /\ a.user_config = b.user_config
  /\ a.config_writes = b.config_writes

\* C4: a command other than ru and sy dispatched to a camera whose status is
\* halted leaves the camera's flags, configuration, record_until and the
\* main-camera pointer as they were, makes no controller call, neither pauses
\* nor starts workers, and does not write the settings file.
C4_HaltedIsFrame ==
  (/\ CurAddressed
   /\ cur.code \notin {Code["ru"], Code["sy"]}
   /\ pre.cams[cur.index].current_status = "halted")
  => /\ Untouched(cams[cur.index], pre.cams[cur.index])
     /\ main_camera = pre.main_camera
     /\ trace = <<>>

\* a group command has reached the halted second camera while the main camera
\* is ready, and execute_command has returned (its log line is written)
C4_Witness ==
  /\ CurAddressed
  /\ cur.phase = "done"
  /\ cur.code = Code["md"]
  /\ cur.index = 1
  /\ pre.cams[1].current_status = "halted"
  /\ pre.cams[0].current_status = "ready"
  /\ cams[1].log = pre.cams[1].log + 1

\* C5 (as claimed): ru and sy are not refused by the halted check: once
\* execute_command has returned, ru has stopped or restarted the controllers
\* and sy has run the macro, even when the addressed camera was halted.
C5_Unconditional ==
  (/\ CurAddressed
   /\ cur.phase = "done"
   /\ pre.cams[cur.index].current_status = "halted")
  => /\ cur.code = Code["sy"] => Calls_of("macro") # {}
     /\ cur.code = Code["ru"] => Calls_of("stop") # {}

Disruptive == requires_full_restart \cup requires_quick_restart

\* C6 (as claimed): a disruptive command pauses the workers exactly once, both
\* terminated before the first controller stop, and starts the replacements
\* exactly once, after the last controller call; this when execute_command
\* has ended, normally or not.
C6_PauseOnceResumeOnce ==
  (/\ CurAddressed
   /\ cur.code \in Disruptive
   /\ pre.cams[cur.index].current_status # "halted"
   /\ cur.phase = "done" \/ d_pc = "crashed")
  => /\ Cardinality(Calls_of("pause")) = 1
     /\ Cardinality(Calls_of("joined")) = 1
     /\ Cardinality(Calls_of("start_threads")) = 1
     /\ \A i \in Calls_of("stop") :
          /\ ~trace[i].alive
          /\ \E j \in Calls_of("joined") : j < i
     /\ \A i \in Calls_of("stop") \cup Calls_of("start") \cup Calls_of("configure") :
          \A j \in Calls_of("start_threads") : i < j

\* C7 (as claimed): no worker is running while the command in progress has a
\* controller stopped and not yet restarted.
C7_NoWorkerDuringReconfiguration ==
  (d_pc = "exec" /\ cur.phase = "running" /\ reconfiguring # {}) => ~WorkersAlive

\* C8 (as claimed): between commands every camera's stored status is the
\* status derived from its flags and started bit, or an error sentinel.
C8_StoredIsDerived ==
  d_pc = "loop" =>
    \A c \in Slots :
      \/ cams[c].current_status \in ErrorStatuses
      \/ cams[c].current_status = set_status(cams[c], "").current_status

\* the table of C9
C9_Table(started, still, video, md, tl) ==
  IF ~started THEN "halted"
  ELSE IF still THEN "image"
  ELSE IF video
  THEN CASE md /\ tl -> "tl_md_video"
         [] md /\ ~tl -> "md_video"
         [] ~md /\ tl -> "tl_video"
         [] ~md /\ ~tl -> "video"
  ELSE CASE md /\ tl -> "tl_md_ready"
         [] md /\ ~tl -> "md_ready"
         [] ~md /\ tl -> "timelapse"
         [] ~md /\ ~tl -> "ready"

\* C9: set_status() without argument stores the status the table gives for
\* (started, capturing_still, capturing_video, motion_detection, timelapse_on),
\* whatever the previous status was, and changes nothing else.
C9_StatusIsTable ==
  cur.phase = "status_derived" =>
    /\ cams[0].current_status =
         C9_Table(pre.cams[0].started, pre.cams[0].capturing_still,
                  pre.cams[0].capturing_video, pre.cams[0].motion_detection,
                  pre.cams[0].timelapse_on)
    /\ cams[0] = [pre.cams[0] EXCEPT !.current_status = cams[0].current_status]

\* the call replaced an error status by the status of a recording camera with
\* motion detection and timelapse on
C9_Witness ==
  /\ cur.phase = "status_derived"
  /\ pre.cams[0].current_status = "Error"
  /\ cams[0].current_status = "tl_md_video"

\* C10 (as claimed): no validated command ends the main thread abnormally.
C10_NoAbnormalEnd == d_pc # "crashed"


(***************************************************************************)
(* The command loop entered with the main camera in any state of its flags *)
(* and any stored status, the empty one included: the state the third test *)
(* of the pop condition is written for.  The controller is started and no  *)
(* still capture is under way, as at every pass of the loop.               *)
(***************************************************************************)
InitLoop ==
  /\ contents = <<>>
  /\ \E video \in BOOLEAN, md \in BOOLEAN, tl \in BOOLEAN,
        status \in StatusValues :
    InitFrom([InitCams([c \in Slots |-> TRUE]) EXCEPT
                ![0].capturing_video = video,
                ![0].motion_detection = md,
                ![0].timelapse_on = tl,
                ![0].current_status = status])

SpecLoop == InitLoop /\ [][NextRecord]_vars

(***************************************************************************)
(* Parsing of pipe messages (specification SpecParse).                     *)
(***************************************************************************)
\* the listener has polled the message in the pipe
Polled == writes = 1

\* the message is a group message: its first character is "["
IsGroupText == contents # <<>> /\ contents[1] = "["

\* the texts between the commas of the bracketed code list, blanks removed
GroupCodeTexts ==
  LET t == RStrip(contents)
      close == IndexFrom(t, "]", 1)
      raw == Split(SubSeq(t, 2, close - 1), ",")
  IN [i \in 1..Len(raw) |-> Strip(raw[i])]

\* what follows the code list, blanks removed
ParamPart ==
  LET t == RStrip(contents)
      close == IndexFrom(t, "]", 1)
  IN Strip(SubSeq(t, close + 1, Len(t)))

IsBracketed == Len(ParamPart) >= 2 /\ ParamPart[1] = "[" /\ ParamPart[Len(ParamPart)] = "]"

\* the text inside the brackets of the parameter list
ParamText == SubSeq(ParamPart, 2, Len(ParamPart) - 1)

UnescapedCommas(s) ==
  Cardinality({i \in 1..Len(s) : s[i] = "," /\ (i = 1 \/ s[i - 1] # "/")})

\* every comma of s written as "/,"
RECURSIVE Escaped(_)
Escaped(s) ==
  IF s = <<>> THEN <<>>
  ELSE (IF s[1] = "," THEN <<"/", ",">> ELSE <<s[1]>>) \o Escaped(Tail(s))

\* the entries of ps, commas escaped, joined by commas
RECURSIVE Rejoin(_)
Rejoin(ps) ==
  IF Len(ps) = 1 THEN Escaped(ps[1])
  ELSE Escaped(ps[1]) \o <<",">> \o Rejoin(Tail(ps))

\* the group commands the listener holds or has enqueued
Accepted ==
  {c \in {incoming} \cup {command_queue[i] : i \in 1..Len(command_queue)} : c.grp}

\* C11: a polled message that is not a group message and whose first two
\* characters are not a known command code is rejected by read_pipe and the
\* Command Queue stays as it was, and so does an empty read.
C11_UnknownCodeRejected ==
  (Polled /\ ~IsGroupText /\ SliceTo(contents, 2) \notin ValidCodes)
    => /\ incoming = NoCmd
       /\ l_pc = "read"
       /\ command_queue = <<>>

C11_Witness ==
  /\ Polled
  /\ contents = <<"z", "z", " ", "m">>
  /\ incoming = NoCmd
  /\ command_queue = <<>>

\* C12: a polled group message with no "]" in it, or with a non-blank code
\* outside the known command set, is rejected as a whole: make_cmd_lists
\* returns rejection and nothing is enqueued.
C12_GroupAllOrNothing ==
  (/\ Polled
   /\ IsGroupText
   /\ \/ IndexFrom(RStrip(contents), "]", 1) = 0
      \/ \E i \in 1..Len(GroupCodeTexts) :
           GroupCodeTexts[i] # <<>> /\ GroupCodeTexts[i] \notin ValidCodes)
    => /\ incoming = NoCmd
       /\ l_pc = "read"
       /\ command_queue = <<>>

C12_Witness ==
  /\ Polled
  /\ contents = <<"[", "m", "d", ",", "z", "z", "]">>
  /\ incoming = NoCmd
  /\ command_queue = <<>>

\* C13 as stated: every accepted group command has a code list and a
\* parameter list of equal length and only blank or known codes.
C13_EqualLength ==
  \A c \in Accepted :
    /\ Len(c.codes) = Len(c.params)
    /\ \A i \in 1..Len(c.codes) : c.codes[i] = <<>> \/ c.codes[i] \in ValidCodes

\* C13 amended: every accepted group command has a parameter list at least
\* as long as its code list - of equal length when no more parameter entries
\* than codes are supplied, of the number of supplied entries when more are -
\* and only blank or known codes.
C13_ParamsCoverCodes ==
  \A c \in Accepted :
    /\ Len(c.params) >= Len(c.codes)
    /\ Len(c.params) =
         IF IsBracketed
         THEN Max(Len(c.codes), 1 + UnescapedCommas(ParamText))
         ELSE Len(c.codes)
    /\ \A i \in 1..Len(c.codes) : c.codes[i] = <<>> \/ c.codes[i] \in ValidCodes

C13_Witness ==
  /\ Len(command_queue) = 1
  /\ command_queue[1].grp
  /\ Len(command_queue[1].codes) = 2
  /\ Len(command_queue[1].params) = 3

\* C14: the bracketed parameter text is split exactly at its unescaped
\* commas, one entry more than there are unescaped commas, and "/," is
\* replaced by "," in each entry: writing the commas of the entries as "/,"
\* again and joining the entries by commas gives the text back.
C14_SplitAtUnescapedCommas ==
  (Polled /\ incoming.grp /\ IsBracketed)
    => LET n == 1 + UnescapedCommas(ParamText)
       IN /\ Len(incoming.params) >= n
          /\ Rejoin(SubSeq(incoming.params, 1, n)) = ParamText

C14_Witness ==
  /\ Polled
  /\ incoming.grp
  /\ IsBracketed
  /\ ParamText = <<"a", "/", ",", "a">>
  /\ incoming.params[1] = <<"a", ",", "a">>

\* C15: with fewer parameter entries than codes the parameter list has the
\* supplied entries in their positions followed by empty strings up to the
\* number of codes; a bare parameter string is the parameter of every code.
C15_PaddedOrDuplicated ==
  (Polled /\ incoming.grp)
    => LET supplied ==
             IF ParamPart = <<>> THEN <<>>
             ELSE SplitUnescaped(ParamText, 1, 1)
           n == Len(incoming.codes)
       IN IF IsBracketed \/ ParamPart = <<>>
          THEN Len(supplied) < n
                 => /\ Len(incoming.params) = n
                    /\ \A i \in 1..n :
                         incoming.params[i] =
                           IF i <= Len(supplied) THEN Unescape(supplied[i])
                           ELSE <<>>
          ELSE incoming.params = [i \in 1..n |-> ParamPart]

C15_Witness ==
  /\ Polled
  /\ incoming.grp
  /\ Len(incoming.codes) = 2
  /\ ParamText = <<"a">>
  /\ incoming.params = << <<"a">>, <<>> >>

(***************************************************************************)
(* Routing of dispatched commands.                                         *)
(***************************************************************************)
\* the execute_command calls the dispatched command asks for: one on the
\* main camera of the time of dispatch for a simple command, one per
\* position on the slot of that position for a group command
ExpectedCalls ==
  IF routed.cmd.grp
  THEN [i \in 1..Len(routed.cmd.codes) |->
          [index |-> i - 1, code |-> routed.cmd.codes[i],
           param |-> routed.cmd.params[i]]]
  ELSE <<[index |-> routed.main, code |-> routed.cmd.codes[1],
          param |-> routed.cmd.params[1]]>>

PublishCall == [index |-> main_camera, code |-> <<"publish">>, param |-> <<>>]

\* C16 (as claimed): the execute_command calls of a dispatched command are
\* made in the order of ExpectedCalls, each after the one before it has
\* returned, and once execute_all_commands is over all of them have been made,
\* followed by exactly one status publish, for the main camera of that time.
C16_RoutedThenPublished ==
  /\ (d_pc = "exec" /\ routed.cmd # NoCmd)
       => /\ Len(routed.calls) <= Len(ExpectedCalls)
          /\ routed.calls = SubSeq(ExpectedCalls, 1, Len(routed.calls))
  /\ (d_pc = "exec" /\ ops # <<>> /\ Head(ops).op \in {"begin", "publish"})
       => cur.phase # "running"
  /\ (d_pc # "exec" /\ routed.cmd # NoCmd)
       => routed.calls = Append(ExpectedCalls, PublishCall)

\* C17: execute_command called with a blank code, or for a slot that has no
\* Camera Record, returns at once: every Camera Record (its log and settings
\* file included) and the main-camera pointer are as before the call, no
\* controller call or worker pause was made, and the calls still to be made
\* for the rest of the command are all pending.
C17_DroppedIsNoOp ==
  (cur.phase = "done" /\ (cur.index \notin Slots \/ cur.code = <<>>))
    => /\ cams = pre.cams
       /\ main_camera = pre.main_camera
       /\ trace = <<>>
       /\ d_pc = "exec"
       /\ ops = SubSeq(Calls(routed.cmd, routed.main), Len(routed.calls) + 1,
                       Len(ExpectedCalls) + 1)

\* the blank first member of a group command was dropped and the second
\* member has not started yet
C17_Witness ==
  /\ cur.phase = "done"
  /\ cur.code = <<>>
  /\ cur.index = 0
  /\ routed.cmd.grp
  /\ Len(ops) = 2
  /\ Head(ops).op = "begin"
  /\ Head(ops).code = Code["md"]

(***************************************************************************)
(* Timed recording (specification SpecRecord).                             *)
(***************************************************************************)
\* the duration N of a parameter "1 N" with N a positive integer, else 0
Duration(param) ==
  IF Len(param) >= 3 /\ param[1] = "1" /\ param[2] = " "
     /\ \A i \in 3..Len(param) : param[i] \in Digits
  THEN DigitsVal(SubSeq(param, 3, Len(param)))
  ELSE 0

\* C18: (1) when a ca command with parameter "1 N", N a positive integer, has
\* been carried out on a camera that was neither halted nor recording, the
\* camera is recording and its record_until is the time of the call plus N;
\* (2) the main loop stops a recording that has a deadline only when the
\* deadline has been reached; (3) with no further command, a recording that
\* has a deadline is eventually stopped and its record_until cleared.
C18_TimedRecording ==
  /\ [](\A c \in Slots :
          (/\ d_pc = "exec"
           /\ cur.phase \in {"running", "done"}
           /\ cur.index = c
           /\ cur.code = Code["ca"]
           /\ Duration(cur.param) > 0
           /\ pre.cams[c].current_status # "halted"
           /\ ~pre.cams[c].capturing_video)
            => /\ cams[c].capturing_video
               /\ cams[c].record_until = now + Duration(cur.param))
  /\ [][\A c \in Slots :
          (/\ d_pc = "poll"
           /\ cams[c].capturing_video
           /\ cams[c].record_until # 0
           /\ ~cams'[c].capturing_video)
            => /\ cams[c].record_until <= now
               /\ cams'[c].record_until = 0]_vars
  /\ \A c \in Slots :
       (cams[c].capturing_video /\ cams[c].record_until # 0)
         ~> (~cams[c].capturing_video /\ cams[c].record_until = 0)

\* 'ca 1 2' was dispatched at time 0, the clock has reached 2 and the main
\* loop has stopped the recording and cleared the deadline
C18_Witness ==
  /\ routed.cmd = SimpleCmd(Code["ca"], <<"1", " ", "2">>)
  /\ now = 2
  /\ d_pc = "loop"
  /\ ~cams[0].capturing_video
  /\ cams[0].record_until = 0
  /\ cams[0].current_status = "ready"

(***************************************************************************)
(* Range-checked settings (specification SpecExec).                        *)
(***************************************************************************)
\* execute_command has returned from a command with this code that reached
\* its handler (the camera was not halted)
Returned(code) ==
  /\ CurAddressed
  /\ cur.phase = "done"
  /\ cur.code = code
  /\ ~cur.refused

\* the texts int() converts, with their values
IntTexts ==
  (<<"0">> :> 0) @@ (<<"1">> :> 1) @@ (<<"5">> :> 5) @@ (<<"-", "1">> :> -1)
  @@ (SliceFrom(Msg["bi 25000000"], 3) :> 25000000)
  @@ (SliceFrom(Msg["bi 25000001"], 3) :> 25000001)
  @@ (SliceFrom(Msg["tv 864000"], 3) :> 864000)
  @@ (SliceFrom(Msg["tv 864001"], 3) :> 864001)

\* the setting is not persisted: settings dict and settings file as before
NotPersisted(c) ==
  /\ cams[c].write_to_config = pre.cams[c].write_to_config
  /\ cams[c].user_config = pre.cams[c].user_config
  /\ cams[c].config_writes = pre.cams[c].config_writes

\* C19: a bi command succeeds, and video_bitrate is its value v, exactly when
\* the parameter is an integer v with 0 <= v <= 25000000; otherwise it fails,
\* video_bitrate is as before and nothing is persisted.
C19_BitrateInRange ==
  Returned(Code["bi"])
    => LET c == cur.index
           valid == /\ cur.param \in DOMAIN IntTexts
                    /\ IntTexts[cur.param] >= 0
                    /\ IntTexts[cur.param] <= 25000000
       IN /\ success = valid
          /\ IF valid
             THEN cams[c].config.video_bitrate = IntTexts[cur.param]
             ELSE /\ cams[c].config.video_bitrate = pre.cams[c].config.video_bitrate
                  /\ NotPersisted(c)

C19_Witness ==
  /\ Returned(Code["bi"])
  /\ cur.param = SliceFrom(Msg["bi 25000000"], 3)
  /\ success
  /\ cams[cur.index].config.video_bitrate = 25000000
  /\ pre.cams[cur.index].config.video_bitrate # 25000000

\* C20: a tv command succeeds, and tl_interval is its value v, exactly when
\* the parameter is an integer v with 1 <= v <= 864000; otherwise it fails,
\* tl_interval is as before and nothing is persisted.
C20_IntervalInRange ==
  Returned(Code["tv"])
    => LET c == cur.index
           valid == /\ cur.param \in DOMAIN IntTexts
                    /\ IntTexts[cur.param] >= 1
                    /\ IntTexts[cur.param] <= 864000
       IN /\ success = valid
          /\ IF valid
             THEN cams[c].config.tl_interval = IntTexts[cur.param]
             ELSE /\ cams[c].config.tl_interval = pre.cams[c].config.tl_interval
                  /\ NotPersisted(c)

C20_Witness ==
  /\ Returned(Code["tv"])
  /\ cur.param = SliceFrom(Msg["tv 864000"], 3)
  /\ success
  /\ cams[cur.index].config.tl_interval = 864000
  /\ pre.cams[cur.index].config.tl_interval # 864000

(***************************************************************************)
(* Failure and persistence of settings (specification SpecExec).           *)
(***************************************************************************)
\* the commands whose handlers check the type or the range of the parameter
CheckedCodes ==
  {Code["px"], Code["pv"], Code["cs"], Code["cr"], Code["bi"], Code["tv"],
   Code["qu"], Code["mt"], Code["ms"], Code["mb"], Code["me"]}

\* C21 (as claimed): when the handler of a command that checks its parameter
\* has reported failure, the camera's configuration map is the map of before
\* the command.
C21_FailureLeavesConfig ==
  (/\ CurAddressed
   /\ cur.phase = "done"
   /\ ~cur.refused
   /\ cur.code \in CheckedCodes
   /\ ~success)
    => cams[cur.index].config = pre.cams[cur.index].config

\* C22 (as claimed): a command whose code has a setting name and whose
\* handler changed the camera's configuration map has reported success and the
\* settings file was rewritten with an entry under one of the code's setting
\* names; a command whose handler reported failure wrote no settings.
C22_AppliedIsPersisted ==
  (/\ CurAddressed
   /\ cur.phase = "done"
   /\ ~cur.refused
   /\ cur.code \in ValidCodes)
    => LET c == cur.index
           setting == VALID_COMMANDS[cur.code]
       IN /\ (/\ setting.kind # "none"
              /\ cams[c].config # pre.cams[c].config)
               => /\ success
                  /\ cams[c].config_writes = pre.cams[c].config_writes + 1
                  /\ \E i \in 1..Len(setting.names) :
                       DictHas(cams[c].user_config, setting.names[i])
          /\ ~success => NotPersisted(c)

(***************************************************************************)
(* The macro command (specification SpecExec).                             *)
(***************************************************************************)
\* C23: once a dispatched sy command has returned, the only calls it made
\* are the macro call and its outcome: no worker was paused or started, no
\* controller stopped or restarted, the camera's flags, configuration,
\* settings and log are as before and the main pointer is unchanged; and it
\* reported success only when the script was a file, was executable and
\* exited with status zero.
C23_MacroIsFrame ==
  (CurAddressed /\ cur.phase = "done" /\ cur.code = Code["sy"] /\ ~cur.refused)
    => /\ Len(trace) = 2
       /\ trace[1].ev = "macro"
       /\ success <=> trace[2].ev = "exit_zero"
       /\ Untouched(cams[cur.index], pre.cams[cur.index])
       /\ cams[cur.index].log = pre.cams[cur.index].log
       /\ \A c \in Slots : cams[c].started = pre.cams[c].started
       /\ main_camera = pre.main_camera

\* a macro whose script exited with a non-zero status has returned
C23_Witness ==
  /\ CurAddressed
  /\ cur.phase = "done"
  /\ cur.code = Code["sy"]
  /\ Len(trace) = 2
  /\ trace[2].ev = "exit_nonzero"
  /\ ~success

(***************************************************************************)
(* Reachability of the implemented commands (specification SpecParse).     *)
(***************************************************************************)
\* C24 (as claimed): a polled message that starts with the two-character
\* code of a command execute_command has a branch for - the codes of the
\* command table and sy - is accepted by read_pipe as that simple command.
C24_ImplementedIsAccepted ==
  (/\ Polled
   /\ SliceTo(contents, 2) \in {c \in ValidCodes \cup {Code["sy"]} : Len(c) = 2})
    => incoming = SimpleCmd(SliceTo(RStrip(contents), 2),
                            SliceFrom(RStrip(contents), 3))

(***************************************************************************)
(* The queue lock (specification Spec).                                    *)
(***************************************************************************)
\* C25: the dispatcher only tries the queue lock.  An iteration that finds
\* the lock held by the listener can still proceed, leaves the queue and the
\* lock as they are and goes on to the polls of the same iteration; while a
\* command is being executed the dispatcher does not hold the lock, so a
\* listener waiting to append can take it.
C25_LockOnlyTried ==
  /\ [](/\ (d_pc = "loop" /\ process_running /\ cmd_queue_lock = "listener")
             => ENABLED MainLoopSkip
        /\ d_pc \in {"exec", "crashed"} => cmd_queue_lock # "dispatcher"
        /\ (d_pc = "exec" /\ l_pc = "acquire") => ENABLED ListenerAcquire)
  /\ [][(d_pc = "loop" /\ d_pc' # "loop" /\ process_running
          /\ cmd_queue_lock = "listener")
         => (/\ command_queue' = command_queue
             /\ dispatched' = dispatched
             /\ cmd_queue_lock' = "listener"
             /\ d_pc' = "poll")]_vars

C25_Witness ==
  /\ d_pc = "exec"
  /\ cur.phase = "running"
  /\ cur.code \in Disruptive
  /\ l_pc = "append"
  /\ cmd_queue_lock = "listener"

(***************************************************************************)
(* The listener and a failing pipe (specification SpecDaemon).             *)
(***************************************************************************)
\* C26 (as claimed): no outcome of a pipe read ends the listener: it is in
\* its loop for as long as the process is running, and has left it only by
\* finding process_running false.
C26_ReadFailureNotFatal ==
  \/ l_pc \in {"read", "acquire", "append"}
  \/ l_pc = "exited" /\ ~process_running

(***************************************************************************)
(* Shutdown (specification SpecDaemon).                                    *)
(***************************************************************************)
\* C27 (as claimed): once process_running is false the main thread leaves
\* its loop and the shutdown runs to its end.  Its steps come in order: from
\* the end of the loop every status is halted; the workers are waited for
\* only after the listener has ended; the controllers are torn down only
\* after both workers have ended; at the end every controller is stopped,
\* its status file says halted, and the pipe, open until then, is closed.
C27_ShutdownCompletes ==
  /\ [](/\ d_pc \in {"join_listener", "join_workers", "teardown", "done"}
             => \A c \in Slots : cams[c].current_status = "halted"
        /\ d_pc \in {"join_workers", "teardown", "done"}
             => l_pc \in {"exited", "crashed"}
        /\ d_pc \in {"teardown", "done"} => ~WorkersAlive
        /\ d_pc = "done"
             => \A c \in Slots : /\ ~cams[c].started
                                 /\ ~cams[c].encoder_running
                                 /\ cams[c].status_file = "halted"
        /\ fifo_open <=> d_pc # "done")
  /\ ~process_running ~> d_pc = "done"

C30_MainPointerNamesSlot ==
  /\ [](/\ main_camera \in Slots
        /\ (CurAddressed /\ cur.code = Code["cn"] /\ cur.phase \in {"running", "done"})
             => LET named == IsInt(cur.param) /\ ToInt(cur.param) \in Slots
                IN /\ main_camera # pre.main_camera
                        => named /\ main_camera = ToInt(cur.param)
                   /\ ~named => /\ main_camera = pre.main_camera
                                /\ \A w \in DOMAIN threads :
                                     threads[w] = "new" <=> pre.threads[w] = "new"
                                /\ trace = <<>>)
  /\ [][main_camera' # main_camera
          => cur.code = Code["cn"] /\ AtOp("set_main")]_vars

C30_Witness ==
  /\ CurAddressed
  /\ cur.code = Code["cn"]
  /\ cur.param = <<"2">>
  /\ cur.phase = "done"
  /\ ~cur.refused
  /\ WorkersAlive

(***************************************************************************)
(* Error and custom statuses (specification SpecStatus).                   *)
(***************************************************************************)
\* C31 (as claimed): an error status that an explicit set_status call has
\* adopted is still the status after a set_status call without argument.
C31_ErrorIsSticky ==
  (/\ cur.phase = "status_derived"
   /\ trace # <<>>
   /\ trace[1].ev \in ErrorStatuses
   /\ pre.cams[0].current_status = trace[1].ev)
    => cams[0].current_status = pre.cams[0].current_status

\* C32: an explicit status that is neither halted nor an error status is
\* stored as given only when the stored status is empty; otherwise it is
\* ignored and the status the table gives for the started bit and the flags
\* is stored.
C32_ExplicitOnlyWhenUnset ==
  (/\ cur.phase = "status_explicit"
   /\ trace[1].ev \notin ErrorStatuses \cup {"halted"})
    => cams[0].current_status =
         IF pre.cams[0].current_status = "" THEN trace[1].ev
         ELSE C9_Table(pre.cams[0].started, pre.cams[0].capturing_still,
                       pre.cams[0].capturing_video, pre.cams[0].motion_detection,
                       pre.cams[0].timelapse_on)

C32_Witness ==
  /\ cur.phase = "status_explicit"
  /\ trace[1].ev = "ready"
  /\ pre.cams[0].current_status = "ready"
  /\ pre.cams[0].motion_detection
  /\ cams[0].current_status = "md_ready"

(***************************************************************************)
(* The maximum-resolution still capture (specification SpecExec).          *)
(***************************************************************************)
\* C33 (as claimed): when ix has returned, the image size, the buffer count,
\* the sensor format and the stream mode with its stream assignment are
\* those of the camera at the call, and exactly one capture was made,
\* between the two configurations.
C33_IxReverts ==
  (CurAddressed /\ cur.phase = "done" /\ ~cur.refused /\ cur.code = Code["ix"])
    => LET cam == cams[cur.index]
           old == pre.cams[cur.index]
       IN /\ cam.config.image_width = old.config.image_width
          /\ cam.config.image_height = old.config.image_height
          /\ cam.config.picam_buffer_count = old.config.picam_buffer_count
          /\ cam.sensor_format = old.sensor_format
          /\ cam.solo_stream_mode = old.solo_stream_mode
          /\ cam.preview_stream = old.preview_stream
          /\ cam.record_stream = old.record_stream
          /\ cam.md_stream = old.md_stream
          /\ Cardinality({i \in 1..Len(trace) : trace[i].ev = "capture"}) = 1

C35_RecordingIdempotent ==
  /\ \A c \in Slots : cams[c].encoder_running => cams[c].capturing_video
  /\ (CurAddressed /\ cur.phase = "done" /\ ~cur.refused /\ cur.code = Code["ca"])
       => LET cam == cams[cur.index]
              old == pre.cams[cur.index]
          IN /\ (StartsWith(cur.param, <<"1">>) /\ old.capturing_video)
                  => /\ ~success
                     /\ cam = [old EXCEPT !.log = cam.log]
             /\ (~StartsWith(cur.param, <<"1">>) /\ ~old.capturing_video)
                  => /\ ~success
                     /\ cam = [old EXCEPT !.log = cam.log, !.record_until = 0]

C35_Witness ==
  /\ CurAddressed
  /\ cur.phase = "done"
  /\ cur.code = Code["ca"]
  /\ cur.param = <<"1", " ", "1">>
  /\ pre.cams[cur.index].capturing_video
  /\ pre.cams[cur.index].record_until # 0
  /\ pre.cams[cur.index].record_until < now + 1

\* C37 (as claimed): a recording deadline is set only while the camera is
\* capturing video.
C37_DeadlineOnlyWhileRecording ==
  \A c \in Slots : cams[c].record_until # 0 => cams[c].capturing_video

(***************************************************************************)
(* Starting the workers (specification Spec).                              *)
(***************************************************************************)
\* C36 (as claimed): start_preview_md_threads never calls start on a worker
\* that has been started before, so no start raises RuntimeError.
C36_NoWorkerStartedTwice == crash # "RuntimeError"

C39_IntervalFollowsSetting ==
  cur.phase = "done"
    => tl_interval_loops = cams[main_camera].config.tl_interval * 10

(***************************************************************************)
(* Commands after ru 0 (specification SpecExec).                           *)
(***************************************************************************)
\* C40 (as claimed): while every camera is stopped and the workers are not
\* running, which is the state ru 0 leaves until a following ru 1, a command
\* other than ru (and other than sy, which the halted check lets through)
\* addressed to any slot is refused: it leaves the camera as it was and
\* makes no capture, recording or controller call.
C40_StoppedMeansHalted ==
  (/\ CurAddressed
   /\ cur.phase = "done"
   /\ cur.code \notin {Code["ru"], Code["sy"]}
   /\ \A c \in Slots : ~pre.cams[c].started
   /\ \A w \in DOMAIN pre.threads : pre.threads[w] \in {"new", "dead"})
  => /\ cur.refused
     /\ Untouched(cams[cur.index], pre.cams[cur.index])
     /\ trace = <<>>

====
